---- MODULE Spec2Model ----
(***************************************************************************)
(* Model of the webhook resilience core of appgrid-backend:                *)
(*   - WebhookService.processWebhook / retryWebhook  (webhook.service.ts)   *)
(*   - handleTransactionCompleted and its $transaction block (paddle route) *)
(*   - EmailQueueService (email-queue.service.ts) and the periodic sweep    *)
(*     of BackgroundJobsService.                                            *)
(* The relational store is modelled as committed tables plus one write      *)
(* buffer per open database transaction; a transaction's writes become      *)
(* visible atomically at commit and vanish at rollback.                     *)
(***************************************************************************)
EXTENDS Integers, Sequences, FiniteSets, TLC

\* ---------------------------------------------------------------- bounds
NumDeliveries == 2
NumTxns == 1
NumEmails == 1
NumSenders == 2
MaxManualRetries == 1
MaxRetryAttempts == 3
NumCallers == 2
NumAdjustments == 2
MaxEntitlements == 2
MaxItems == 2

Deliveries == 1..NumDeliveries
TxnIds == 1..NumTxns
Emails == {"a@example.com"}
EmailIds == 1..NumEmails
Slots == 1..NumSenders
Callers == 1..NumCallers

\* ------------------------------------------------------------- constants
Null == [id |-> 0]
NoTx == [open |-> FALSE, user |-> Null, license |-> Null, purchase |-> Null]
Undefined == "undefined"
null == "null"
NoError == [name |-> "none"]
NoCustomer == [email |-> Undefined]
NoTask == [pc |-> "none", attempts |-> 0, maxAttempts |-> 0, inTry |-> FALSE,
           retried |-> Undefined]
NoResponse == [code |-> 0]
DefaultMaxAttempts == 5
DefaultMaxActivations == 5

VARIABLES
  webhookEvent,    \* table webhook_events, keyed by (source 'paddle', eventId)
  user,            \* table users, keyed by email (unique)
  license,         \* table licenses: set of rows
  paddlePurchase,  \* table paddle_purchases: set of rows
  emailQueue,      \* table email_queue: sequence of rows (index = id)
  pc,              \* position of each webhook request handler
  req,             \* per handler: the request's payload fields
  customerDetails, \* per handler: result of fetchPaddleCustomer
  tx,              \* per handler: write buffer of the open $transaction
  result,          \* per handler: value returned by the processor callback
  error,           \* per handler: error thrown by the processor callback
  response,        \* per handler: HTTP response sent
  workInvoked,     \* per handler: the processor callback was entered
  task,            \* sendEmail invocations in flight: slot -> item id -> position
  delivered,       \* per item id: number of sends the transport accepted
  manualRetries,   \* number of admin retryEmail calls so far
  retryEmailError, \* error thrown by the last retryEmail call, if any
  options,         \* retry(): the RetryOptions of the call
  fn,              \* retry(): how fn settles on its 1st, 2nd, ... invocation
  attempt,         \* retry(): loop variable
  lastError,       \* retry(): last error caught
  retryPc,         \* retry(): position in the loop
  events,          \* retry(): fn invocations, onRetry calls and sleeps, in order
  outcome,         \* retry(): value returned or error thrown
  implementation,  \* which LicenseService is built: "device" or "counter"
  deviceActivation,  \* table device_activations: set of rows
  licenseValidation, \* table license_validations: sequence of audit rows
  call,            \* per caller: the validate / deactivate invocation in flight
  licenseRead,     \* per caller: the row findUnique returned (local `license`)
  revenueCatMigration, \* table revenuecat_migrations: set of rows
  migrate,         \* per caller: the POST /revenuecat/migrate request in flight
  items,           \* determineLicenseConfig: data.items of the transaction
  licenseConfig    \* determineLicenseConfig: the value returned

storeVars == <<webhookEvent, user, license, paddlePurchase, emailQueue>>
handlerVars == <<pc, req, customerDetails, tx, result, error, response, workInvoked>>
retryVars == <<options, fn, attempt, lastError, retryPc, events, outcome>>
licenseVars == <<implementation, deviceActivation, licenseValidation, call,
                 licenseRead>>
migrationVars == <<revenueCatMigration, migrate>>
configVars == <<items, licenseConfig>>
auxVars == <<retryVars, licenseVars, migrationVars, configVars>>
vars == <<webhookEvent, user, license, paddlePurchase, emailQueue, pc, req,
          customerDetails, tx, result, error, response, workInvoked,
          task, delivered, manualRetries, retryEmailError, auxVars>>
emailVars == <<task, delivered, manualRetries, retryEmailError>>
webhookVars == <<webhookEvent, user, license, paddlePurchase, handlerVars>>

\* JavaScript property read: a missing property reads as undefined
Field(r, f) == IF f \in DOMAIN r THEN r[f] ELSE Undefined

\* new WebhookError(message, isRetryable = true, statusCode = 500)
WebhookError(message, isRetryable, statusCode) ==
  [name |-> "WebhookError", message |-> message,
   isRetryable |-> isRetryable, statusCode |-> statusCode]

\* any other exception (database error, unique constraint violation, ...)
PlainError(message) == [name |-> "Error", message |-> message]

\* the webhook tables (but licenses) and handlers and the email queue before
\* any request
BaseInit ==
  /\ webhookEvent = [t \in TxnIds |-> Null]
  /\ user = [e \in Emails |-> Null]
  /\ paddlePurchase = {}
  /\ emailQueue = <<>>
  /\ pc = [d \in Deliveries |-> "idle"]
  /\ req = [d \in Deliveries |-> Null]
  /\ customerDetails = [d \in Deliveries |-> NoCustomer]
  /\ tx = [d \in Deliveries |-> NoTx]
  /\ result = [d \in Deliveries |-> Null]
  /\ error = [d \in Deliveries |-> NoError]
  /\ response = [d \in Deliveries |-> NoResponse]
  /\ workInvoked = [d \in Deliveries |-> FALSE]
  /\ task = [s \in Slots |-> [i \in EmailIds |-> NoTask]]
  /\ delivered = [i \in EmailIds |-> 0]
  /\ manualRetries = 0
  /\ retryEmailError = NoError

\* no retry() call is in progress
RetryIdle ==
  /\ options = [maxAttempts |-> 0]
  /\ fn = <<>>
  /\ attempt = 0
  /\ lastError = NoError
  /\ retryPc = "none"
  /\ events = <<>>
  /\ outcome = [kind |-> "none"]

NoCall == [op |-> "none", pc |-> "idle"]

\* no license API call has been made
LicenseIdle ==
  /\ implementation = "device"
  /\ deviceActivation = {}
  /\ licenseValidation = <<>>
  /\ call = [c \in Callers |-> NoCall]
  /\ licenseRead = [c \in Callers |-> Null]

NoMigrate == [pc |-> "idle"]

\* no migrate request has been made
MigrateIdle ==
  /\ revenueCatMigration = {}
  /\ migrate = [c \in Callers |-> NoMigrate]

NoConfig == [isLifetime |-> FALSE, maxActivations |-> 0]

\* determineLicenseConfig has not been called
ConfigIdle ==
  /\ items = <<>>
  /\ licenseConfig = NoConfig

Init ==
  /\ BaseInit
  /\ license = {}
  /\ RetryIdle
  /\ MigrateIdle
  /\ ConfigIdle
  /\ LicenseIdle

\* ------------------------------------------------------------------------
\* Signature verification of the paddle webhook route

\* the paddle-signature header of a request: whether it is there, whether it
\* has a ts= and an h1= part, whether h1 is the HMAC of `${ts}:${body}`, and
\* now - ts * 1000 in milliseconds
Headers ==
  {[present |-> FALSE, ts |-> FALSE, h1 |-> FALSE, hmacOk |-> FALSE, skewMs |-> 0],
   [present |-> TRUE, ts |-> FALSE, h1 |-> TRUE, hmacOk |-> FALSE, skewMs |-> 0],
   [present |-> TRUE, ts |-> TRUE, h1 |-> FALSE, hmacOk |-> FALSE, skewMs |-> 0],
   [present |-> TRUE, ts |-> TRUE, h1 |-> TRUE, hmacOk |-> FALSE, skewMs |-> 0],
   [present |-> TRUE, ts |-> TRUE, h1 |-> TRUE, hmacOk |-> TRUE, skewMs |-> 300000],
   [present |-> TRUE, ts |-> TRUE, h1 |-> TRUE, hmacOk |-> TRUE, skewMs |-> 300001],
   [present |-> TRUE, ts |-> TRUE, h1 |-> TRUE, hmacOk |-> TRUE, skewMs |-> 0 - 300001]}

Abs(n) == IF n < 0 THEN 0 - n ELSE n

fiveMinutes == 5 * 60 * 1000

\* the verification without the timestamp check
VerifySignatureNoTimestamp(header) ==
  IF ~header.present THEN "Missing signature"
  ELSE IF ~header.ts \/ ~header.h1 THEN "Invalid signature format"
  ELSE IF ~header.hmacOk THEN "Invalid signature"
  ELSE "ok"

\* steps 2 and 3 of the route: the message of the WebhookError thrown, or "ok"
VerifySignature(header) ==
  IF ~header.present THEN "Missing signature"
  ELSE IF ~header.ts \/ ~header.h1 THEN "Invalid signature format"
  ELSE IF ~header.hmacOk THEN "Invalid signature"
  ELSE IF Abs(header.skewMs) > fiveMinutes THEN "Invalid timestamp"
  ELSE "ok"

\* ------------------------------------------------------------------------
\* HTTP responses of the paddle webhook route

\* handleTransactionCompleted: return { success: true, ...result, isNewEvent }
\* (object spread: a later property overrides an earlier one of the same name)
SuccessResponse(res, isNewEvent) ==
  [isNewEvent |-> isNewEvent] @@ res @@ [success |-> TRUE, code |-> 200]

\* handleAdjustmentUpdated: return { ...result, isNewEvent }
AdjustmentResponse(res, isNewEvent) ==
  [isNewEvent |-> isNewEvent] @@ res @@ [code |-> 200]

\* the route dispatches on event_type: each handler builds its own reply
RouteResponse(payload, res, isNewEvent) ==
  IF payload.event_type = "adjustment.updated"
    THEN AdjustmentResponse(res, isNewEvent)
    ELSE SuccessResponse(res, isNewEvent)

\* catch block of the route: WebhookError -> its statusCode and retryable flag,
\* anything else -> 500, retryable
ErrorResponse(err) ==
  [code |-> IF err.name = "WebhookError" THEN err.statusCode ELSE 500,
   success |-> FALSE,
   error |-> err.message,
   retryable |-> IF err.name = "WebhookError" THEN err.isRetryable ELSE TRUE]

\* ------------------------------------------------------------------------
\* WebhookService.processWebhook

InFlight == {"upsert", "work", "fetch", "tx_check", "tx_user", "tx_license",
             "tx_purchase", "tx_commit", "enqueue", "complete", "fail"}

\* the data.status / data.customer_id combinations a payload may carry
PayloadData ==
  {[status |-> "completed", customer_id |-> "ctm_1"],
   [status |-> "pending", customer_id |-> "ctm_1"],
   [status |-> "completed", customer_id |-> Undefined]}

\* a request arrives: POST /paddle/webhook with a transaction.completed payload.
\* The body is signed by Paddle, so every delivery of one transaction carries
\* the body of its first delivery.
Receive(d) ==
  /\ pc[d] = "idle"
  /\ \A e \in Deliveries : e < d => pc[e] # "idle"
  /\ \E t \in TxnIds, data \in PayloadData :
       /\ \A e \in Deliveries : req[e] # Null /\ req[e].id = t =>
             data = [status |-> req[e].status, customer_id |-> req[e].customer_id]
       /\ req' = [req EXCEPT ![d] = [id |-> t, status |-> data.status,
                                     customer_id |-> data.customer_id,
                                     event_type |-> "transaction.completed"]]
  /\ pc' = [pc EXCEPT ![d] = "lookup"]
  /\ UNCHANGED <<storeVars, customerDetails, tx, result, error, response,
                 workInvoked>>
  /\ UNCHANGED <<emailVars, auxVars>>

\* Lookup without the COMPLETED short-circuit: a completed event is processed again
LookupNoCompleted(d) ==
  /\ pc[d] = "lookup"
  /\ LET row == webhookEvent[req[d].id] IN
       IF row # Null /\ row.status = "PROCESSING"
         THEN /\ response' = [response EXCEPT ![d] =
                   ErrorResponse(WebhookError("Webhook is already being processed", FALSE, 409))]
              /\ pc' = [pc EXCEPT ![d] = "done"]
         ELSE /\ pc' = [pc EXCEPT ![d] = "upsert"]
              /\ UNCHANGED response
  /\ UNCHANGED <<storeVars, req, customerDetails, tx, result, error, workInvoked>>
  /\ UNCHANGED <<emailVars, auxVars>>

\* Lookup without the PROCESSING guard: an in-flight event is taken over
LookupNoProcessing(d) ==
  /\ pc[d] = "lookup"
  /\ LET row == webhookEvent[req[d].id] IN
       IF row # Null /\ row.status = "COMPLETED"
         THEN /\ response' = [response EXCEPT ![d] = RouteResponse(req[d], row.payload, FALSE)]
              /\ pc' = [pc EXCEPT ![d] = "done"]
         ELSE /\ pc' = [pc EXCEPT ![d] = "upsert"]
              /\ UNCHANGED response
  /\ UNCHANGED <<storeVars, req, customerDetails, tx, result, error, workInvoked>>
  /\ UNCHANGED <<emailVars, auxVars>>

\* findUnique on (source, eventId) and the COMPLETED / PROCESSING branches
Lookup(d) ==
  /\ pc[d] = "lookup"
  /\ LET row == webhookEvent[req[d].id] IN
       IF row # Null /\ row.status = "COMPLETED"
         THEN /\ response' = [response EXCEPT ![d] = RouteResponse(req[d], row.payload, FALSE)]
              /\ pc' = [pc EXCEPT ![d] = "done"]
         ELSE IF row # Null /\ row.status = "PROCESSING"
           THEN /\ response' = [response EXCEPT ![d] =
                     ErrorResponse(WebhookError("Webhook is already being processed", FALSE, 409))]
                /\ pc' = [pc EXCEPT ![d] = "done"]
           ELSE /\ pc' = [pc EXCEPT ![d] = "upsert"]
                /\ UNCHANGED response
  /\ UNCHANGED <<storeVars, req, customerDetails, tx, result, error, workInvoked>>
  /\ UNCHANGED <<emailVars, auxVars>>

\* prisma.webhookEvent.upsert: create with attempts 1, or update to PROCESSING
\* incrementing attempts
Upsert(d) ==
  /\ pc[d] = "upsert"
  /\ LET t == req[d].id
         row == webhookEvent[t] IN
       webhookEvent' = [webhookEvent EXCEPT ![t] =
          IF row = Null
            THEN [id |-> t, status |-> "PROCESSING", attempts |-> 1,
                  lastError |-> null, payload |-> req[d]]
            ELSE [row EXCEPT !.status = "PROCESSING", !.attempts = row.attempts + 1]]
  /\ pc' = [pc EXCEPT ![d] = "work"]
  /\ UNCHANGED <<user, license, paddlePurchase, emailQueue, req, customerDetails,
                 tx, result, error, response, workInvoked>>
  /\ UNCHANGED <<emailVars, auxVars>>

\* success path: mark COMPLETED, clear lastError, return isNewEvent true
Complete(d) ==
  /\ pc[d] = "complete"
  /\ LET t == req[d].id IN
       webhookEvent' = [webhookEvent EXCEPT ![t] =
          [webhookEvent[t] EXCEPT !.status = "COMPLETED", !.lastError = null]]
  /\ response' = [response EXCEPT ![d] = RouteResponse(req[d], result[d], TRUE)]
  /\ pc' = [pc EXCEPT ![d] = "done"]
  /\ result' = [result EXCEPT ![d] = Null]
  /\ customerDetails' = [customerDetails EXCEPT ![d] = NoCustomer]
  /\ UNCHANGED <<user, license, paddlePurchase, emailQueue, req,
                 tx, error, workInvoked>>
  /\ UNCHANGED <<emailVars, auxVars>>

\* the failure path marking every failed event RETRYING
FailAlwaysRetrying(d) ==
  /\ pc[d] = "fail"
  /\ LET t == req[d].id IN
       webhookEvent' = [webhookEvent EXCEPT ![t] =
          [webhookEvent[t] EXCEPT !.status = "RETRYING",
                                  !.lastError = error[d].message]]
  /\ response' = [response EXCEPT ![d] = ErrorResponse(error[d])]
  /\ pc' = [pc EXCEPT ![d] = "done"]
  /\ error' = [error EXCEPT ![d] = NoError]
  /\ customerDetails' = [customerDetails EXCEPT ![d] = NoCustomer]
  /\ UNCHANGED <<user, license, paddlePurchase, emailQueue, req,
                 tx, result, workInvoked>>
  /\ UNCHANGED <<emailVars, auxVars>>

\* failure path: RETRYING or FAILED by the error's retryability, then re-throw
Fail(d) ==
  /\ pc[d] = "fail"
  /\ LET t == req[d].id
         isRetryable == IF error[d].name = "WebhookError" THEN error[d].isRetryable ELSE TRUE IN
       webhookEvent' = [webhookEvent EXCEPT ![t] =
          [webhookEvent[t] EXCEPT !.status = IF isRetryable THEN "RETRYING" ELSE "FAILED",
                                  !.lastError = error[d].message]]
  /\ response' = [response EXCEPT ![d] = ErrorResponse(error[d])]
  /\ pc' = [pc EXCEPT ![d] = "done"]
  /\ error' = [error EXCEPT ![d] = NoError]
  /\ customerDetails' = [customerDetails EXCEPT ![d] = NoCustomer]
  /\ UNCHANGED <<user, license, paddlePurchase, emailQueue, req,
                 tx, result, workInvoked>>
  /\ UNCHANGED <<emailVars, auxVars>>

\* WebhookService.retryWebhook (POST /admin/webhooks/:webhookId/retry):
\* only a FAILED row is reset to PENDING; any other status throws
RetryWebhook(t) ==
  /\ webhookEvent[t] # Null
  /\ webhookEvent[t].status = "FAILED"
  /\ webhookEvent' = [webhookEvent EXCEPT ![t] =
        [webhookEvent[t] EXCEPT !.status = "PENDING", !.lastError = null]]
  /\ UNCHANGED <<user, license, paddlePurchase, emailQueue, handlerVars>>
  /\ UNCHANGED <<emailVars, auxVars>>

\* ------------------------------------------------------------------------
\* handleTransactionCompleted: the processor callback

LicenseKeyOf(id) == "KEY-" \o ToString(id)

\* the callback without the test of data.status
WorkNoStatusCheck(d) ==
  /\ pc[d] = "work"
  /\ workInvoked' = [workInvoked EXCEPT ![d] = TRUE]
  /\ IF req[d].customer_id = Undefined
       THEN /\ error' = [error EXCEPT ![d] = WebhookError("No customer ID found", FALSE, 400)]
            /\ pc' = [pc EXCEPT ![d] = "fail"]
       ELSE /\ pc' = [pc EXCEPT ![d] = "fetch"]
            /\ UNCHANGED error
  /\ UNCHANGED <<storeVars, req, customerDetails, tx, result, response>>
  /\ UNCHANGED <<emailVars, auxVars>>

\* entry of the callback: business-rule validation of the payload
Work(d) ==
  /\ pc[d] = "work"
  /\ workInvoked' = [workInvoked EXCEPT ![d] = TRUE]
  /\ IF req[d].status # "completed"
       THEN /\ error' = [error EXCEPT ![d] = WebhookError("Transaction not completed", FALSE, 200)]
            /\ pc' = [pc EXCEPT ![d] = "fail"]
       ELSE IF req[d].customer_id = Undefined
         THEN /\ error' = [error EXCEPT ![d] = WebhookError("No customer ID found", FALSE, 400)]
              /\ pc' = [pc EXCEPT ![d] = "fail"]
         ELSE /\ pc' = [pc EXCEPT ![d] = "fetch"]
              /\ UNCHANGED error
  /\ UNCHANGED <<storeVars, req, customerDetails, tx, result, response>>
  /\ UNCHANGED <<emailVars, auxVars>>

\* outcome of GET /customers/{id} after the retry helper has given up or succeeded:
\* an HTTP status, 0 for a network error
FetchStatuses == {200, 404, 500, 0}

\* fetchPaddleCustomer: classification of the final failure
FetchError(httpStatus) ==
  IF httpStatus = 0
    THEN WebhookError("Failed to fetch customer details", TRUE, 500)
    ELSE WebhookError("Failed to fetch customer details",
                      httpStatus >= 500 \/ httpStatus = 429, httpStatus)

FetchCustomer(d) ==
  /\ pc[d] = "fetch"
  /\ \E httpStatus \in FetchStatuses :
       IF httpStatus = 200
         THEN \E e \in Emails \cup {Undefined}, consent \in BOOLEAN :
                IF e = Undefined
                  THEN /\ error' = [error EXCEPT ![d] = WebhookError("Customer email not found", FALSE, 400)]
                       /\ pc' = [pc EXCEPT ![d] = "fail"]
                       /\ UNCHANGED customerDetails
                  ELSE /\ customerDetails' = [customerDetails EXCEPT ![d] =
                                                [email |-> e, marketingConsent |-> consent]]
                       /\ pc' = [pc EXCEPT ![d] = "tx_check"]
                       /\ UNCHANGED error
         ELSE /\ error' = [error EXCEPT ![d] = FetchError(httpStatus)]
              /\ pc' = [pc EXCEPT ![d] = "fail"]
              /\ UNCHANGED customerDetails
  /\ UNCHANGED <<storeVars, req, tx, result, response, workInvoked>>
  /\ UNCHANGED <<emailVars, auxVars>>

\* the license row a purchase row includes (include: { license: true })
LicenseById(id) == CHOOSE l \in license : l.id = id

\* tx.paddlePurchase.findUnique({ where: { paddleTransactionId } })
FindPurchase(t) ==
  IF \E p \in paddlePurchase : p.paddleTransactionId = t
    THEN CHOOSE p \in paddlePurchase : p.paddleTransactionId = t
    ELSE Null

\* start of the $transaction callback: double-check for an existing purchase
TxDoubleCheck(d) ==
  /\ pc[d] = "tx_check"
  /\ LET existingPurchase == FindPurchase(req[d].id) IN
       IF existingPurchase # Null
         THEN /\ result' = [result EXCEPT ![d] =
                   [alreadyProcessed |-> TRUE,
                    licenseKey |-> LicenseById(existingPurchase.licenseId).licenseKey,
                    email |-> existingPurchase.email,
                    userId |-> existingPurchase.userId,
                    licenseId |-> existingPurchase.licenseId]]
              /\ pc' = [pc EXCEPT ![d] = "enqueue"]
              /\ UNCHANGED tx
         ELSE /\ tx' = [tx EXCEPT ![d] = [NoTx EXCEPT !.open = TRUE]]
              /\ pc' = [pc EXCEPT ![d] = "tx_user"]
              /\ UNCHANGED result
  /\ UNCHANGED <<storeVars, req, customerDetails, error, response, workInvoked>>
  /\ UNCHANGED <<emailVars, auxVars>>

\* find the user by email; create it, or update its marketing consent.
\* An insert of a key another open transaction has inserted waits for that
\* transaction to end (unique index on users.email).
TxUser(d) ==
  /\ pc[d] = "tx_user"
  /\ LET cd == customerDetails[d]
         found == user[cd.email] IN
       IF found = Null
         THEN /\ \A o \in Deliveries \ {d} : ~(tx[o].user # Null /\ tx[o].user.email = cd.email
                                                /\ user[cd.email] = Null)
              /\ tx' = [tx EXCEPT ![d].user =
                          [id |-> d, email |-> cd.email, marketingConsent |-> cd.marketingConsent]]
         ELSE IF found.marketingConsent # cd.marketingConsent
           THEN tx' = [tx EXCEPT ![d].user = [found EXCEPT !.marketingConsent = cd.marketingConsent]]
           ELSE tx' = [tx EXCEPT ![d].user = found]
  /\ pc' = [pc EXCEPT ![d] = "tx_license"]
  /\ UNCHANGED <<storeVars, req, customerDetails, result, error, response,
                 workInvoked>>
  /\ UNCHANGED <<emailVars, auxVars>>

\* createLicense ignoring its tx argument: the row is written by the global
\* client, outside the transaction
TxLicenseOutsideTx(d) ==
  /\ pc[d] = "tx_license"
  /\ LET row == [id |-> d, licenseKey |-> LicenseKeyOf(d), userId |-> tx[d].user.id,
                 status |-> "ACTIVE", maxActivations |-> DefaultMaxActivations,
                 source |-> "paddle", transactionId |-> req[d].id] IN
       /\ license' = license \cup {row}
       /\ tx' = [tx EXCEPT ![d].license = row]
  /\ pc' = [pc EXCEPT ![d] = "tx_purchase"]
  /\ UNCHANGED <<webhookEvent, user, paddlePurchase, emailQueue, req, customerDetails,
                 result, error, response, workInvoked>>
  /\ UNCHANGED <<emailVars, auxVars>>

\* LicenseService.createLicense(data, tx): the row is written through the
\* transaction client
TxLicense(d) ==
  /\ pc[d] = "tx_license"
  /\ tx' = [tx EXCEPT ![d].license =
              [id |-> d, licenseKey |-> LicenseKeyOf(d), userId |-> tx[d].user.id,
               status |-> "ACTIVE", maxActivations |-> DefaultMaxActivations,
               source |-> "paddle", transactionId |-> req[d].id]]
  /\ pc' = [pc EXCEPT ![d] = "tx_purchase"]
  /\ UNCHANGED <<storeVars, req, customerDetails, result, error, response,
                 workInvoked>>
  /\ UNCHANGED <<emailVars, auxVars>>

\* purchase insert with no unique index on paddleTransactionId
TxPurchaseNoUnique(d) ==
  /\ pc[d] = "tx_purchase"
  /\ tx' = [tx EXCEPT ![d].purchase =
              [id |-> d, paddleTransactionId |-> req[d].id,
               paddleCustomerId |-> req[d].customer_id,
               email |-> customerDetails[d].email,
               licenseId |-> tx[d].license.id, userId |-> tx[d].user.id,
               emailSent |-> FALSE]]
  /\ pc' = [pc EXCEPT ![d] = "tx_commit"]
  /\ UNCHANGED <<storeVars, req, customerDetails, result, error, response, workInvoked>>
  /\ UNCHANGED <<emailVars, auxVars>>

\* tx.paddlePurchase.create: paddleTransactionId is unique. A committed row with
\* the same id is a constraint violation; an uncommitted one makes the insert wait.
TxPurchase(d) ==
  /\ pc[d] = "tx_purchase"
  /\ LET t == req[d].id IN
       IF FindPurchase(t) # Null
         THEN /\ tx' = [tx EXCEPT ![d] = NoTx]
              /\ error' = [error EXCEPT ![d] = PlainError("Unique constraint failed")]
              /\ pc' = [pc EXCEPT ![d] = "fail"]
         ELSE /\ \A o \in Deliveries \ {d} : ~(tx[o].purchase # Null /\ tx[o].purchase.paddleTransactionId = t)
              /\ tx' = [tx EXCEPT ![d].purchase =
                          [id |-> d, paddleTransactionId |-> t,
                           paddleCustomerId |-> req[d].customer_id,
                           email |-> customerDetails[d].email,
                           licenseId |-> tx[d].license.id, userId |-> tx[d].user.id,
                           emailSent |-> FALSE]]
              /\ pc' = [pc EXCEPT ![d] = "tx_commit"]
              /\ UNCHANGED error
  /\ UNCHANGED <<storeVars, req, customerDetails, result, response,
                 workInvoked>>
  /\ UNCHANGED <<emailVars, auxVars>>

\* the callback returns and the transaction commits: all buffered writes
\* become visible at once
TxCommit(d) ==
  /\ pc[d] = "tx_commit"
  /\ user' = [user EXCEPT ![tx[d].user.email] = tx[d].user]
  /\ license' = license \cup {tx[d].license}
  /\ paddlePurchase' = paddlePurchase \cup {tx[d].purchase}
  /\ result' = [result EXCEPT ![d] =
        [alreadyProcessed |-> FALSE,
         licenseKey |-> tx[d].license.licenseKey,
         email |-> customerDetails[d].email,
         userId |-> tx[d].user.id,
         licenseId |-> tx[d].license.id]]
  /\ tx' = [tx EXCEPT ![d] = NoTx]
  /\ pc' = [pc EXCEPT ![d] = "enqueue"]
  /\ UNCHANGED <<webhookEvent, emailQueue, req, customerDetails, error, response,
                 workInvoked>>
  /\ UNCHANGED <<emailVars, auxVars>>

\* any statement of the transaction (or its commit) throws: rollback
TxFail(d) ==
  /\ pc[d] \in {"tx_check", "tx_user", "tx_license", "tx_purchase", "tx_commit"}
  /\ tx' = [tx EXCEPT ![d] = NoTx]
  /\ error' = [error EXCEPT ![d] = PlainError("Database error")]
  /\ pc' = [pc EXCEPT ![d] = "fail"]
  /\ UNCHANGED <<storeVars, req, customerDetails, result, response,
                 workInvoked>>
  /\ UNCHANGED <<emailVars, auxVars>>

\* EmailQueueService.queueEmail: a PENDING row with nextRetryAt = new Date().
\* Timestamps of email rows are kept relative to the clock: nextRetryAt is the
\* number of minutes from now until the row is due, 0 when it is due or overdue.
NewEmail(to, meta, maxAttempts) ==
  [to |-> to, status |-> "PENDING", attempts |-> 0, maxAttempts |-> maxAttempts,
   nextRetryAt |-> 0, lastError |-> null, metadata |-> meta]

\* the email step without the alreadyProcessed test
EnqueueAlways(d) ==
  /\ pc[d] = "enqueue"
  /\ \/ emailQueue' = Append(emailQueue,
            NewEmail(result[d].email, req[d].id, DefaultMaxAttempts))
     \/ UNCHANGED emailQueue
  /\ result' = [result EXCEPT ![d] =
        [licenseKey |-> result[d].licenseKey, email |-> result[d].email,
         alreadyProcessed |-> result[d].alreadyProcessed]]
  /\ pc' = [pc EXCEPT ![d] = "complete"]
  /\ UNCHANGED <<webhookEvent, user, license, paddlePurchase, req, customerDetails,
                 tx, error, response, workInvoked>>
  /\ UNCHANGED <<emailVars, auxVars>>

\* the email step without its try / catch: a failure to render or queue
\* propagates out of the callback
EnqueueUncaught(d) ==
  /\ pc[d] = "enqueue"
  /\ IF result[d].alreadyProcessed
       THEN /\ result' = [result EXCEPT ![d] =
                 [licenseKey |-> result[d].licenseKey, email |-> result[d].email,
                  alreadyProcessed |-> result[d].alreadyProcessed]]
            /\ pc' = [pc EXCEPT ![d] = "complete"]
            /\ UNCHANGED <<emailQueue, error>>
       ELSE \/ /\ emailQueue' = Append(emailQueue,
                      NewEmail(result[d].email, req[d].id, DefaultMaxAttempts))
               /\ result' = [result EXCEPT ![d] =
                    [licenseKey |-> result[d].licenseKey, email |-> result[d].email,
                     alreadyProcessed |-> result[d].alreadyProcessed]]
               /\ pc' = [pc EXCEPT ![d] = "complete"]
               /\ UNCHANGED error
            \/ /\ error' = [error EXCEPT ![d] = PlainError("Failed to queue email")]
               /\ pc' = [pc EXCEPT ![d] = "fail"]
               /\ UNCHANGED <<emailQueue, result>>
  /\ UNCHANGED <<webhookEvent, user, license, paddlePurchase, req, customerDetails,
                 tx, response, workInvoked>>
  /\ UNCHANGED <<emailVars, auxVars>>

\* after the transaction: queue the license email unless alreadyProcessed; a
\* failure to render or queue is logged and swallowed. The callback then
\* returns { licenseKey, email, alreadyProcessed }.
Enqueue(d) ==
  /\ pc[d] = "enqueue"
  /\ IF result[d].alreadyProcessed
       THEN UNCHANGED emailQueue
       ELSE \/ emailQueue' = Append(emailQueue,
                   NewEmail(result[d].email, req[d].id, DefaultMaxAttempts))
            \/ UNCHANGED emailQueue
  /\ result' = [result EXCEPT ![d] =
        [licenseKey |-> result[d].licenseKey, email |-> result[d].email,
         alreadyProcessed |-> result[d].alreadyProcessed]]
  /\ pc' = [pc EXCEPT ![d] = "complete"]
  /\ UNCHANGED <<webhookEvent, user, license, paddlePurchase, req, customerDetails,
                 tx, error, response, workInvoked>>
  /\ UNCHANGED <<emailVars, auxVars>>

\* the server process dies (kill, deploy, process.exit on shutdown): every
\* handler in flight is lost and the database rolls back its open transaction
Crash ==
  /\ \E d \in Deliveries : pc[d] \in InFlight \/ pc[d] = "lookup"
  /\ pc' = [d \in Deliveries |-> IF pc[d] \in InFlight \cup {"lookup"} THEN "crashed" ELSE pc[d]]
  /\ tx' = [d \in Deliveries |-> NoTx]
  /\ customerDetails' = [d \in Deliveries |-> NoCustomer]
  /\ result' = [d \in Deliveries |-> Null]
  /\ error' = [d \in Deliveries |-> NoError]
  /\ UNCHANGED <<storeVars, req, response, workInvoked>>
  /\ UNCHANGED <<emailVars, auxVars>>

Next ==
  \/ \E d \in Deliveries : Receive(d)
  \/ \E d \in Deliveries : Lookup(d)
  \/ \E d \in Deliveries : Upsert(d)
  \/ \E d \in Deliveries : Work(d)
  \/ \E d \in Deliveries : FetchCustomer(d)
  \/ \E d \in Deliveries : TxDoubleCheck(d)
  \/ \E d \in Deliveries : TxUser(d)
  \/ \E d \in Deliveries : TxLicense(d)
  \/ \E d \in Deliveries : TxPurchase(d)
  \/ \E d \in Deliveries : TxCommit(d)
  \/ \E d \in Deliveries : TxFail(d)
  \/ \E d \in Deliveries : Enqueue(d)
  \/ \E d \in Deliveries : Complete(d)
  \/ \E d \in Deliveries : Fail(d)
  \/ \E t \in TxnIds : RetryWebhook(t)
  \/ Crash

Spec == Init /\ [][Next]_vars

\* a request arrives with any paddle-signature header: it is verified, then
\* routed as in Receive
Request(d) ==
  /\ pc[d] = "idle"
  /\ \A e \in Deliveries : e < d => pc[e] # "idle"
  /\ \E header \in Headers :
       LET verdict == VerifySignature(header) IN
       IF verdict # "ok"
         THEN /\ req' = [req EXCEPT ![d] = [id |-> 0, header |-> header]]
              /\ response' = [response EXCEPT ![d] =
                    ErrorResponse(WebhookError(verdict, FALSE, 401))]
              /\ pc' = [pc EXCEPT ![d] = "done"]
         ELSE /\ \E t \in TxnIds, data \in PayloadData :
                   /\ \A e \in Deliveries : req[e] # Null /\ req[e].id = t =>
                         data = [status |-> req[e].status, customer_id |-> req[e].customer_id]
                   /\ req' = [req EXCEPT ![d] = [id |-> t, status |-> data.status,
                                                 customer_id |-> data.customer_id,
                                                 event_type |-> "transaction.completed",
                                                 header |-> header]]
              /\ pc' = [pc EXCEPT ![d] = "lookup"]
              /\ UNCHANGED response
  /\ UNCHANGED <<storeVars, customerDetails, tx, result, error, workInvoked>>
  /\ UNCHANGED <<emailVars, auxVars>>

VerifyNext ==
  \/ \E d \in Deliveries : Request(d)
  \/ \E d \in Deliveries : Lookup(d)
  \/ \E d \in Deliveries : Upsert(d)
  \/ \E d \in Deliveries : Work(d)
  \/ \E d \in Deliveries : FetchCustomer(d)
  \/ \E d \in Deliveries : TxDoubleCheck(d)
  \/ \E d \in Deliveries : TxUser(d)
  \/ \E d \in Deliveries : TxLicense(d)
  \/ \E d \in Deliveries : TxPurchase(d)
  \/ \E d \in Deliveries : TxCommit(d)
  \/ \E d \in Deliveries : TxFail(d)
  \/ \E d \in Deliveries : Enqueue(d)
  \/ \E d \in Deliveries : Complete(d)
  \/ \E d \in Deliveries : Fail(d)
  \/ \E t \in TxnIds : RetryWebhook(t)
  \/ Crash

VerifySpec == Init /\ [][VerifyNext]_vars

TypeOK ==
  /\ \A d \in Deliveries : pc[d] \in InFlight \cup {"idle", "lookup", "done", "crashed"}
  /\ \A t \in TxnIds : webhookEvent[t] = Null \/
        webhookEvent[t].status \in {"PENDING", "PROCESSING", "COMPLETED", "FAILED", "RETRYING"}

\* ------------------------------------------------------------------------
\* EmailQueueService and the background sweep

\* limit of BackgroundJobsService.processEmailQueue and of the admin route
SweepLimit == 10

\* const backoffMinutes = [1, 5, 15, 60, 240]
backoffMinutes == <<1, 5, 15, 60, 240>>

Min(a, b) == IF a < b THEN a ELSE b

\* handleEmailFailure: backoffIndex = Math.min(attempts - 1, length - 1)
backoffIndex(attempts) == Min(attempts - 1, Len(backoffMinutes) - 1)

\* backoffMinutes[backoffIndex] (TLA+ sequences are 1-indexed); a negative
\* index reads undefined, which makes nextRetryAt an invalid Date
minutesToWait(attempts) ==
  IF backoffIndex(attempts) >= 0 THEN backoffMinutes[backoffIndex(attempts) + 1] ELSE -1

\* maxAttempts values a caller passes to queueEmail (options.maxAttempts || 5)
MaxAttemptsChoices == {2, DefaultMaxAttempts}

QueueIds == DOMAIN emailQueue

\* EmailQueueService.queueEmail called by some flow
QueueEmail ==
  /\ Len(emailQueue) < NumEmails
  /\ \E m \in MaxAttemptsChoices :
       emailQueue' = Append(emailQueue, NewEmail("a@example.com", 0, m))
  /\ UNCHANGED <<webhookVars, auxVars, emailVars>>

\* where-clause of processPendingEmails (nextRetryAt <= now)
Eligible ==
  {i \in QueueIds : /\ emailQueue[i].status \in {"PENDING", "RETRYING"}
                    /\ emailQueue[i].attempts < emailQueue[i].maxAttempts
                    /\ emailQueue[i].nextRetryAt <= 0}

\* orderBy nextRetryAt asc, take limit
Batches(limit) ==
  {b \in SUBSET Eligible :
     /\ Cardinality(b) = Min(limit, Cardinality(Eligible))
     /\ \A i \in b, j \in Eligible \ b :
          emailQueue[i].nextRetryAt <= emailQueue[j].nextRetryAt}

SlotIdle(s) == \A i \in EmailIds : task[s][i].pc = "none"

\* processPendingEmails: one findMany, then a sendEmail per selected row, all
\* running concurrently (Promise.allSettled). The slots are the invocations
\* that may overlap: the interval timer, the sweep on start, the admin routes.
Sweep(s) ==
  /\ SlotIdle(s)
  /\ \E b \in Batches(SweepLimit) :
       /\ b # {}
       /\ task' = [task EXCEPT ![s] =
                     [i \in EmailIds |-> IF i \in b THEN [NoTask EXCEPT !.pc = "find"] ELSE NoTask]]
  /\ UNCHANGED <<webhookVars, auxVars, emailQueue, delivered, manualRetries, retryEmailError>>

\* sendEmail: re-fetch the row; return if it is missing or already SENT
SendFind(s, i) ==
  /\ task[s][i].pc = "find"
  /\ task' = [task EXCEPT ![s][i].pc =
                IF i \notin QueueIds \/ emailQueue[i].status = "SENT" THEN "none" ELSE "update"]
  /\ UNCHANGED <<webhookVars, auxVars, emailQueue, delivered, manualRetries, retryEmailError>>

\* sendEmail: update to SENDING, attempts incremented in the database
SendUpdate(s, i) ==
  /\ task[s][i].pc = "update"
  /\ emailQueue' = [emailQueue EXCEPT ![i].status = "SENDING",
                                      ![i].attempts = emailQueue[i].attempts + 1]
  /\ task' = [task EXCEPT ![s][i].pc = "transport"]
  /\ UNCHANGED <<webhookVars, auxVars, delivered, manualRetries, retryEmailError>>

\* emailService.sendRawEmail: the transport accepts the message, reports
\* failure (handled inside the try block) or throws (handled in the catch)
SendTransport(s, i) ==
  /\ task[s][i].pc = "transport"
  /\ \/ /\ delivered' = [delivered EXCEPT ![i] = Min(delivered[i] + 1, 2)]
        /\ task' = [task EXCEPT ![s][i].pc = "mark_sent"]
     \/ /\ \E reported \in BOOLEAN :
             task' = [task EXCEPT ![s][i].pc = "failure_find", ![s][i].inTry = reported]
        /\ UNCHANGED delivered
  /\ UNCHANGED <<webhookVars, auxVars, emailQueue, manualRetries, retryEmailError>>

\* sendEmail: mark as sent
SendMarkSent(s, i) ==
  /\ task[s][i].pc = "mark_sent"
  /\ emailQueue' = [emailQueue EXCEPT ![i].status = "SENT", ![i].lastError = null]
  /\ task' = [task EXCEPT ![s][i] = NoTask]
  /\ UNCHANGED <<webhookVars, auxVars, delivered, manualRetries, retryEmailError>>

\* handleEmailFailure: re-read the row
FailureFind(s, i) ==
  /\ task[s][i].pc = "failure_find"
  /\ task' = [task EXCEPT ![s][i] =
                [pc |-> "failure_update", attempts |-> emailQueue[i].attempts,
                 maxAttempts |-> emailQueue[i].maxAttempts, inTry |-> task[s][i].inTry,
                 retried |-> task[s][i].retried]]
  /\ UNCHANGED <<webhookVars, auxVars, emailQueue, delivered, manualRetries, retryEmailError>>

\* handleEmailFailure: RETRYING with backoff while attempts remain, else FAILED.
\* An update with an invalid nextRetryAt throws: when handleEmailFailure was
\* called inside the try block, the catch block calls it once more.
FailureUpdate(s, i) ==
  /\ task[s][i].pc = "failure_update"
  /\ LET hasMoreAttempts == task[s][i].attempts < task[s][i].maxAttempts IN
       IF hasMoreAttempts /\ minutesToWait(task[s][i].attempts) < 0
         THEN /\ UNCHANGED emailQueue
              /\ task' = [task EXCEPT ![s][i] =
                    IF task[s][i].inTry
                      THEN [NoTask EXCEPT !.pc = "failure_find", !.retried = task[s][i].retried]
                      ELSE NoTask]
         ELSE /\ IF hasMoreAttempts
                   THEN emailQueue' = [emailQueue EXCEPT
                          ![i].status = "RETRYING",
                          ![i].lastError = "error",
                          ![i].nextRetryAt = minutesToWait(task[s][i].attempts)]
                   ELSE emailQueue' = [emailQueue EXCEPT
                          ![i].status = "FAILED",
                          ![i].lastError = "Max attempts reached"]
              /\ task' = [task EXCEPT ![s][i] = NoTask]
  /\ UNCHANGED <<webhookVars, auxVars, delivered, manualRetries, retryEmailError>>

\* retryEmail (POST /admin/email-queue/:emailId/retry): throw when the row is
\* missing, else reset the row, then send. The task keeps the status of the
\* row that retryEmail read (sweep tasks have none).
RetryEmail(s, i) ==
  /\ manualRetries < MaxManualRetries
  /\ SlotIdle(s)
  /\ manualRetries' = manualRetries + 1
  /\ IF i \notin QueueIds
       THEN /\ retryEmailError' = PlainError("Email not found")
            /\ UNCHANGED <<emailQueue, task>>
       ELSE /\ emailQueue' = [emailQueue EXCEPT ![i].status = "PENDING", ![i].attempts = 0,
                                                 ![i].lastError = null, ![i].nextRetryAt = 0]
            /\ task' = [task EXCEPT ![s][i] = [NoTask EXCEPT !.pc = "find",
                                                     !.retried = emailQueue[i].status]]
            /\ retryEmailError' = NoError
  /\ UNCHANGED <<webhookVars, auxVars, delivered>>

\* the process stops or restarts (closeGracefully calls process.exit without
\* awaiting running sends): every sendEmail in flight is lost
Restart ==
  /\ \E s \in Slots, i \in EmailIds : task[s][i].pc # "none"
  /\ task' = [s \in Slots |-> [i \in EmailIds |-> NoTask]]
  /\ UNCHANGED <<webhookVars, auxVars, emailQueue, delivered, manualRetries, retryEmailError>>

\* rows waiting for their retry time
Waiting == {i \in QueueIds : emailQueue[i].status \in {"PENDING", "RETRYING"}
                              /\ emailQueue[i].nextRetryAt > 0}

\* the clock advances until the next scheduled retry is due
Tick ==
  /\ Waiting # {}
  /\ LET delta == CHOOSE m \in {emailQueue[i].nextRetryAt : i \in Waiting} :
                     \A i \in Waiting : m <= emailQueue[i].nextRetryAt IN
       emailQueue' = [i \in QueueIds |->
          [emailQueue[i] EXCEPT !.nextRetryAt =
             IF emailQueue[i].nextRetryAt > delta THEN emailQueue[i].nextRetryAt - delta ELSE 0]]
  /\ UNCHANGED <<webhookVars, auxVars, task, delivered, manualRetries, retryEmailError>>

SendStep(s, i) ==
  \/ SendFind(s, i)
  \/ SendUpdate(s, i)
  \/ SendTransport(s, i)
  \/ SendMarkSent(s, i)
  \/ FailureFind(s, i)
  \/ FailureUpdate(s, i)

EmailNext ==
  \/ QueueEmail
  \/ \E s \in Slots : Sweep(s)
  \/ \E s \in Slots, i \in EmailIds : SendFind(s, i)
  \/ \E s \in Slots, i \in EmailIds : SendUpdate(s, i)
  \/ \E s \in Slots, i \in EmailIds : SendTransport(s, i)
  \/ \E s \in Slots, i \in EmailIds : SendMarkSent(s, i)
  \/ \E s \in Slots, i \in EmailIds : FailureFind(s, i)
  \/ \E s \in Slots, i \in EmailIds : FailureUpdate(s, i)
  \/ \E s \in Slots, i \in EmailIds : RetryEmail(s, i)
  \/ Restart
  \/ Tick

EmailSpec == Init /\ [][EmailNext]_vars

\* the interval timer keeps firing, awaited calls return, time passes
EmailFairSpec ==
  /\ EmailSpec
  /\ \A s \in Slots : WF_vars(Sweep(s))
  /\ \A s \in Slots, i \in EmailIds : WF_vars(SendStep(s, i))
  /\ WF_vars(Tick)

\* ------------------------------------------------------------------------
\* retry(fn, options): bounded retry with exponential backoff

RetryAttempts == 0..MaxRetryAttempts

\* how one invocation of fn settles: it resolves, or rejects with an error that
\* is or is not marked retryable
Settlements == {"ok", "retryable", "fatal"}

Pow2(n) == IF n <= 0 THEN 1 ELSE 2 ^ n

\* the error fn rejects with on its n-th invocation
FnError(n, settlement) ==
  [name |-> "Error", message |-> "fn failed", call |-> n,
   isRetryable |-> settlement = "retryable"]

\* options.shouldRetry: the default accepts every error; the predicate of
\* fetchPaddleCustomer accepts the errors marked retryable
shouldRetry(err) ==
  IF options.shouldRetry = "default" THEN TRUE ELSE err.isRetryable

\* Math.min(baseDelayMs * Math.pow(2, attempt - 1), maxDelayMs)
delay(n) == Min(options.baseDelayMs * Pow2(n - 1), options.maxDelayMs)

\* a call of retry: the options after destructuring with their defaults, and
\* a function whose invocations settle in any way
RetryInit ==
  /\ BaseInit
  /\ license = {}
  /\ LicenseIdle
  /\ MigrateIdle
  /\ ConfigIdle
  /\ options \in [maxAttempts : RetryAttempts, baseDelayMs : {1000},
                  maxDelayMs : {10000, 3000},
                  shouldRetry : {"default", "isRetryable"},
                  onRetry : BOOLEAN]
  /\ fn \in [1..MaxRetryAttempts -> Settlements]
  /\ attempt = 1
  /\ lastError = NoError
  /\ retryPc = "loop"
  /\ events = <<>>
  /\ outcome = [kind |-> "none"]

\* the catch block with the last-attempt test left out
RetryCatchNoLastAttempt ==
  /\ retryPc = "catch"
  /\ LET canRetry == shouldRetry(lastError) IN
       IF ~canRetry
         THEN /\ outcome' = [kind |-> "thrown", error |-> lastError]
              /\ retryPc' = "done"
              /\ UNCHANGED events
         ELSE /\ events' = IF options.onRetry
                             THEN Append(events, [type |-> "onRetry", attempt |-> attempt,
                                                  error |-> lastError])
                             ELSE events
              /\ retryPc' = "sleep"
              /\ UNCHANGED outcome
  /\ UNCHANGED <<options, fn, attempt, lastError>>
  /\ UNCHANGED <<webhookVars, emailQueue, emailVars, licenseVars, migrationVars,
                 configVars>>

\* the catch block with the onRetry notification left out
RetryCatchNoHook ==
  /\ retryPc = "catch"
  /\ LET isLastAttempt == attempt = options.maxAttempts
         canRetry == shouldRetry(lastError) IN
       IF isLastAttempt \/ ~canRetry
         THEN /\ outcome' = [kind |-> "thrown", error |-> lastError]
              /\ retryPc' = "done"
         ELSE /\ retryPc' = "sleep"
              /\ UNCHANGED outcome
  /\ UNCHANGED <<options, fn, attempt, lastError, events>>
  /\ UNCHANGED <<webhookVars, emailQueue, emailVars, licenseVars, migrationVars,
                 configVars>>

\* for (attempt = 1; attempt <= maxAttempts; attempt++) { try { return await fn() }
RetryCall ==
  /\ retryPc = "loop"
  /\ attempt <= options.maxAttempts
  /\ events' = Append(events, [type |-> "fn", attempt |-> attempt])
  /\ IF fn[attempt] = "ok"
       THEN /\ outcome' = [kind |-> "returned", value |-> "value"]
            /\ retryPc' = "done"
            /\ UNCHANGED lastError
       ELSE /\ lastError' = FnError(attempt, fn[attempt])
            /\ retryPc' = "catch"
            /\ UNCHANGED outcome
  /\ UNCHANGED <<options, fn, attempt>>
  /\ UNCHANGED <<webhookVars, emailQueue, emailVars, licenseVars, migrationVars,
                 configVars>>

\* catch (error): re-throw on the last attempt or when shouldRetry rejects the
\* error; otherwise notify onRetry before the wait
RetryCatch ==
  /\ retryPc = "catch"
  /\ LET isLastAttempt == attempt = options.maxAttempts
         canRetry == shouldRetry(lastError) IN
       IF isLastAttempt \/ ~canRetry
         THEN /\ outcome' = [kind |-> "thrown", error |-> lastError]
              /\ retryPc' = "done"
              /\ UNCHANGED events
         ELSE /\ events' = IF options.onRetry
                             THEN Append(events, [type |-> "onRetry", attempt |-> attempt,
                                                  error |-> lastError])
                             ELSE events
              /\ retryPc' = "sleep"
              /\ UNCHANGED outcome
  /\ UNCHANGED <<options, fn, attempt, lastError>>
  /\ UNCHANGED <<webhookVars, emailQueue, emailVars, licenseVars, migrationVars,
                 configVars>>

\* await sleep(delay), then attempt++
RetrySleep ==
  /\ retryPc = "sleep"
  /\ events' = Append(events, [type |-> "sleep", ms |-> delay(attempt)])
  /\ attempt' = attempt + 1
  /\ retryPc' = "loop"
  /\ UNCHANGED <<options, fn, lastError, outcome>>
  /\ UNCHANGED <<webhookVars, emailQueue, emailVars, licenseVars, migrationVars,
                 configVars>>

\* the loop ends without returning or throwing: throw lastError
RetryExhausted ==
  /\ retryPc = "loop"
  /\ attempt > options.maxAttempts
  /\ outcome' = [kind |-> "thrown", error |-> lastError]
  /\ retryPc' = "done"
  /\ UNCHANGED <<options, fn, attempt, lastError, events>>
  /\ UNCHANGED <<webhookVars, emailQueue, emailVars, licenseVars, migrationVars,
                 configVars>>

RetryNext ==
  \/ RetryCall
  \/ RetryCatch
  \/ RetrySleep
  \/ RetryExhausted

RetrySpec == RetryInit /\ [][RetryNext]_vars

\* fn settles, timers fire and the event loop runs the continuation
RetryFairSpec == RetrySpec /\ WF_vars(RetryNext)

\* ------------------------------------------------------------------------
\* LicenseService.validateLicense / deactivateLicense. The sources hold two
\* implementations: activations as rows of device_activations ("device",
\* services/license.service.ts) and as the counter licenses.current_activations
\* ("counter").

Implementations == {"device", "counter"}
Fingerprints == {Undefined, "dev-1", "dev-2"}
Operations == {"validate", "deactivate"}

\* findUnique({ where: { licenseKey } }); Null when there is no such row
LicenseByKey(key) ==
  IF \E l \in license : l.licenseKey = key
    THEN CHOOSE l \in license : l.licenseKey = key
    ELSE Null

ActivationsOf(licenseId) == {a \in deviceActivation : a.licenseId = licenseId}

\* an update that is not written
UpdateLicenseLost(id, data) == license

\* prisma.license.update({ where: { id }, data }): sets the given fields of the
\* stored row
UpdateLicense(id, data) ==
  {IF l.id = id THEN data @@ l ELSE l : l \in license}

\* maxActivations of the license: the schema default and a larger value
MaxActivationsChoices == {1, 2}

\* the activation rows a license may hold after earlier sequential calls
InitialActivations(maxActivations) ==
  {devs \in {{}, {"dev-1"}, {"dev-1", "dev-2"}} : Cardinality(devs) <= maxActivations}

\* one license exists, issued by createLicense, possibly suspended or revoked
\* by an administrator and possibly activated by earlier calls. The counter
\* implementation only ever increments current_activations from 0.
LicenseInit ==
  /\ BaseInit
  /\ RetryIdle
  /\ MigrateIdle
  /\ ConfigIdle
  /\ implementation \in Implementations
  /\ \E status \in {"ACTIVE", "SUSPENDED", "REVOKED"},
        expiresAt \in {null, "past"},
        maxActivations \in MaxActivationsChoices :
       \E devs \in InitialActivations(maxActivations), count \in {0, 1} :
         /\ implementation = "device" => count = 0
         /\ implementation = "counter" => devs = {}
         /\ license = {[id |-> 1, licenseKey |-> "KEY-1", userId |-> 1, status |-> status,
                        expiresAt |-> expiresAt,
                        activatedAt |-> IF devs # {} \/ count > 0 THEN "set" ELSE null,
                        maxActivations |-> maxActivations, currentActivations |-> count]}
         /\ deviceActivation =
              {[id |-> IF dev = "dev-1" THEN 101 ELSE 102, licenseId |-> 1,
                deviceFingerprint |-> dev] : dev \in devs}
  /\ licenseValidation = <<>>
  /\ call = [c \in Callers |-> NoCall]
  /\ licenseRead = [c \in Callers |-> Null]

NonLicenseVars == <<migrationVars, configVars,
                    webhookEvent, user, paddlePurchase, emailQueue, handlerVars,
                    emailVars, retryVars>>

\* the requests made: any operation on the existing key with any fingerprint
\* (the counter implementation only stores the fingerprint in the audit row),
\* and on a key that does not exist
Requests ==
  {[op |-> op, licenseKey |-> "KEY-1", deviceFingerprint |-> fp] :
     op \in Operations, fp \in Fingerprints}
  \cup {[op |-> op, licenseKey |-> "FAKE-KEY", deviceFingerprint |-> "dev-1"] :
          op \in Operations}

InCall(c) == call[c].pc \notin {"idle", "done", "thrown"}

\* POST /licenses/validate or /licenses/deactivate arrives: the c-th request
StartCall(c) ==
  /\ call[c].pc = "idle"
  /\ \A o \in Callers : o < c => call[o].pc # "idle"
  /\ \E r \in Requests :
       call' = [o \in Callers |->
                  IF o = c
                    THEN [op |-> r.op, pc |-> "find", n |-> c, licenseKey |-> r.licenseKey,
                          deviceFingerprint |-> r.deviceFingerprint,
                          isValid |-> FALSE, message |-> "",
                          overlapped |-> \E x \in Callers \ {c} : InCall(x)]
                    ELSE IF InCall(o)
                      THEN [call[o] EXCEPT !.overlapped = TRUE]
                      ELSE call[o]]
  /\ UNCHANGED <<license, implementation, deviceActivation, licenseValidation,
                 licenseRead>>
  /\ UNCHANGED NonLicenseVars

\* prisma.license.findUnique with include: the device implementation also
\* reads the license's deviceActivations
FindLicense(c) ==
  /\ call[c].pc = "find"
  /\ LET row == LicenseByKey(call[c].licenseKey) IN
       licenseRead' = [licenseRead EXCEPT ![c] =
          IF row = Null THEN Null
          ELSE IF implementation = "device"
            THEN [deviceActivations |-> ActivationsOf(row.id)] @@ row
            ELSE row]
  /\ call' = [call EXCEPT ![c].pc = "decide"]
  /\ UNCHANGED <<license, implementation, deviceActivation, licenseValidation>>
  /\ UNCHANGED NonLicenseVars

\* deactivateLicense returns currentActivations: the count read, less one on success
NewCount(c, success) ==
  LET lic == licenseRead[c] IN
    IF implementation = "device"
      THEN IF lic = Null THEN 0
           ELSE IF success THEN Cardinality(lic.deviceActivations) - 1
           ELSE Cardinality(lic.deviceActivations)
      ELSE IF lic = Null THEN -1   \* license?.currentActivations is undefined
           ELSE IF success THEN lic.currentActivations - 1
           ELSE lic.currentActivations

\* prisma.licenseValidation.create(...).catch(() => {}): the row's license_id
\* references licenses.id, so with licenseId '' (no license found) the insert
\* is rejected and the rejection is swallowed. The columns copied from the
\* request (ipAddress, userAgent, deviceFingerprint) are left out.
LogAttempt(c, isValid, message) ==
  IF licenseRead[c] = Null
    THEN UNCHANGED licenseValidation
    ELSE licenseValidation' = Append(licenseValidation,
           [licenseId |-> licenseRead[c].id, isValid |-> isValid,
            validationMessage |-> IF call[c].op = "deactivate"
                                    THEN "Deactivation: " \o message
                                    ELSE message])

\* the tail of both methods: the audit write, then return { valid | success,
\* message, currentActivations }
Decided(c, isValid, message) ==
  /\ LogAttempt(c, isValid, message)
  /\ call' = [call EXCEPT ![c] =
        [op |-> call[c].op, pc |-> "done", licenseKey |-> call[c].licenseKey,
         deviceFingerprint |-> call[c].deviceFingerprint,
         isValid |-> isValid, message |-> message,
         currentActivations |-> IF call[c].op = "deactivate" THEN NewCount(c, isValid) ELSE 0,
         overlapped |-> call[c].overlapped]]
  /\ licenseRead' = [licenseRead EXCEPT ![c] = Null]

\* a database call rejects and the method throws: no audit row, no return value
Throws(c, message) ==
  /\ call' = [call EXCEPT ![c].pc = "thrown", ![c].message = message]
  /\ licenseRead' = [licenseRead EXCEPT ![c] = Null]
  /\ UNCHANGED licenseValidation

\* the activations of a license are a set of device fingerprints: a second row
\* for the same license and fingerprint is rejected
Activated(licenseId, fp) ==
  \E a \in ActivationsOf(licenseId) : a.deviceFingerprint = fp

\* a lookup that compares the license id instead of the device fingerprint
FindActivationAnyDevice(lic, fp) ==
  LET matching == {a \in lic.deviceActivations : a.licenseId = lic.id} IN
    IF matching = {} THEN Null
    ELSE CHOOSE a \in matching : \A b \in matching : a.id <= b.id

\* license.deviceActivations.find(d => d.deviceFingerprint === deviceFingerprint)
FindActivation(lic, fp) ==
  LET matching == {a \in lic.deviceActivations : a.deviceFingerprint = fp} IN
    IF matching = {} THEN Null
    ELSE CHOOSE a \in matching : \A b \in matching : a.id <= b.id

\* the rule chain with the expiry test moved in front of the status tests
StatusRuleExpiryFirst(lic) ==
  IF lic = Null THEN "not found"
  ELSE IF lic.expiresAt = "past" THEN "expired"
  ELSE IF lic.status = "REVOKED" THEN "revoked"
  ELSE IF lic.status = "SUSPENDED" THEN "suspended"
  ELSE "none"

\* the head of validateLicense's if / else-if chain, the same in both
\* implementations: the first of these rules the row read matches
StatusRule(lic) ==
  IF lic = Null THEN "not found"
  ELSE IF lic.status = "REVOKED" THEN "revoked"
  ELSE IF lic.status = "SUSPENDED" THEN "suspended"
  ELSE IF lic.expiresAt = "past" THEN "expired"
  ELSE "none"

\* validateLicense, device implementation: the rule chain and its first write
ValidateDevice(c) ==
  /\ call[c].pc = "decide"
  /\ call[c].op = "validate"
  /\ implementation = "device"
  /\ LET lic == licenseRead[c]
         fp == call[c].deviceFingerprint IN
       IF StatusRule(lic) = "not found"
         THEN Decided(c, FALSE, "License key not found")
              /\ UNCHANGED <<license, deviceActivation>>
       ELSE IF StatusRule(lic) = "revoked"
         THEN Decided(c, FALSE, "License has been revoked")
              /\ UNCHANGED <<license, deviceActivation>>
       ELSE IF StatusRule(lic) = "suspended"
         THEN Decided(c, FALSE, "License is suspended")
              /\ UNCHANGED <<license, deviceActivation>>
       ELSE IF StatusRule(lic) = "expired"
         THEN Decided(c, FALSE, "License has expired")
              /\ license' = UpdateLicense(lic.id, [status |-> "EXPIRED"])
              /\ UNCHANGED deviceActivation
       ELSE IF fp = Undefined
         THEN Decided(c, TRUE, "License is valid (no device tracking)")
              /\ UNCHANGED <<license, deviceActivation>>
       ELSE LET existingActivation == FindActivation(lic, fp) IN
         IF existingActivation # Null
           THEN \* deviceActivation.update({ where: { id } }) of the lastSeenAt stamp
                IF existingActivation \in deviceActivation
                  THEN Decided(c, TRUE, "License is valid")
                       /\ UNCHANGED <<license, deviceActivation>>
                  ELSE Throws(c, "Record to update not found")
                       /\ UNCHANGED <<license, deviceActivation>>
         ELSE IF Cardinality(lic.deviceActivations) >= lic.maxActivations
           THEN Decided(c, FALSE, "Maximum activations reached")
                /\ UNCHANGED <<license, deviceActivation>>
         ELSE \* deviceActivation.create
              IF Activated(lic.id, fp)
                THEN Throws(c, "Unique constraint failed")
                     /\ UNCHANGED <<license, deviceActivation>>
                ELSE /\ deviceActivation' = deviceActivation \cup
                          {[id |-> call[c].n, licenseId |-> lic.id, deviceFingerprint |-> fp]}
                     /\ IF lic.activatedAt = null
                          THEN /\ call' = [call EXCEPT ![c].pc = "activated"]
                               /\ UNCHANGED <<licenseValidation, licenseRead>>
                          ELSE Decided(c, TRUE, "License is valid")
                     /\ UNCHANGED license
  /\ UNCHANGED implementation
  /\ UNCHANGED NonLicenseVars

\* validateLicense, device implementation: first activation stamps activatedAt
ValidateActivatedAt(c) ==
  /\ call[c].pc = "activated"
  /\ license' = UpdateLicense(licenseRead[c].id, [activatedAt |-> "set"])
  /\ Decided(c, TRUE, "License is valid")
  /\ UNCHANGED <<implementation, deviceActivation>>
  /\ UNCHANGED NonLicenseVars

\* validateLicense, counter implementation
ValidateCounter(c) ==
  /\ call[c].pc = "decide"
  /\ call[c].op = "validate"
  /\ implementation = "counter"
  /\ LET lic == licenseRead[c] IN
       IF StatusRule(lic) = "not found"
         THEN Decided(c, FALSE, "License key not found") /\ UNCHANGED license
       ELSE IF StatusRule(lic) = "revoked"
         THEN Decided(c, FALSE, "License has been revoked") /\ UNCHANGED license
       ELSE IF StatusRule(lic) = "suspended"
         THEN Decided(c, FALSE, "License is suspended") /\ UNCHANGED license
       ELSE IF StatusRule(lic) = "expired"
         THEN Decided(c, FALSE, "License has expired")
              /\ license' = UpdateLicense(lic.id, [status |-> "EXPIRED"])
       ELSE IF lic.currentActivations >= lic.maxActivations
         THEN Decided(c, FALSE, "Maximum activations reached") /\ UNCHANGED license
       ELSE /\ Decided(c, TRUE, "License is valid")
            /\ IF lic.currentActivations = 0
                 THEN license' = UpdateLicense(lic.id,
                        [currentActivations |-> LicenseByKey(lic.licenseKey).currentActivations + 1,
                         activatedAt |-> "set"])
                 ELSE UNCHANGED license
  /\ UNCHANGED <<implementation, deviceActivation>>
  /\ UNCHANGED NonLicenseVars

\* deactivateLicense, device implementation: delete the device's activation row
DeactivateDevice(c) ==
  /\ call[c].pc = "decide"
  /\ call[c].op = "deactivate"
  /\ implementation = "device"
  /\ LET lic == licenseRead[c]
         fp == call[c].deviceFingerprint IN
       IF lic = Null
         THEN Decided(c, FALSE, "License key not found")
              /\ UNCHANGED deviceActivation
       ELSE IF fp = Undefined
         THEN Decided(c, FALSE, "Device fingerprint required for deactivation")
              /\ UNCHANGED deviceActivation
       ELSE LET found == FindActivation(lic, fp) IN
         IF found = Null
           THEN Decided(c, FALSE, "Device not activated for this license")
                /\ UNCHANGED deviceActivation
         ELSE IF found \in deviceActivation
           THEN /\ deviceActivation' = deviceActivation \ {found}
                /\ Decided(c, TRUE, "License deactivated successfully")
           ELSE Throws(c, "Record to delete does not exist")
                /\ UNCHANGED deviceActivation
  /\ UNCHANGED <<license, implementation>>
  /\ UNCHANGED NonLicenseVars

\* deactivateLicense, counter implementation: decrement current_activations
DeactivateCounter(c) ==
  /\ call[c].pc = "decide"
  /\ call[c].op = "deactivate"
  /\ implementation = "counter"
  /\ LET lic == licenseRead[c] IN
       IF lic = Null
         THEN Decided(c, FALSE, "License key not found") /\ UNCHANGED license
       ELSE IF lic.currentActivations <= 0
         THEN Decided(c, FALSE, "No active activations to deactivate") /\ UNCHANGED license
       ELSE /\ license' = UpdateLicense(lic.id,
                  [currentActivations |-> LicenseByKey(lic.licenseKey).currentActivations - 1])
            /\ Decided(c, TRUE, "License deactivated successfully")
  /\ UNCHANGED <<implementation, deviceActivation>>
  /\ UNCHANGED NonLicenseVars

LicenseNext ==
  \/ \E c \in Callers : StartCall(c)
  \/ \E c \in Callers : FindLicense(c)
  \/ \E c \in Callers : ValidateDevice(c)
  \/ \E c \in Callers : ValidateActivatedAt(c)
  \/ \E c \in Callers : ValidateCounter(c)
  \/ \E c \in Callers : DeactivateDevice(c)
  \/ \E c \in Callers : DeactivateCounter(c)

LicenseSpec == LicenseInit /\ [][LicenseNext]_vars

\* the administrative routes PUT /licenses/:id and POST /licenses/:id/revoke

\* request bodies of the update route: each field may be left out; expiresAt
\* may be null (to clear the expiry) or a date in the future
UpdateLicenseDTOs ==
  [status : {Undefined, "ACTIVE"}, expiresAt : {Undefined, null, "future"}]

\* the data object updateLicense hands to prisma: undefined fields are not written
UpdateData(data) ==
  (IF data.status # Undefined THEN [status |-> data.status] ELSE <<>>)
  @@ (IF data.expiresAt \notin {Undefined, null} THEN [expiresAt |-> data.expiresAt] ELSE <<>>)
  @@ (IF data.status = "REVOKED" THEN [revokedAt |-> "now"] ELSE <<>>)

\* LicenseService.updateLicense(id, data)
updateLicense ==
  /\ \E l \in license, data \in UpdateLicenseDTOs :
       license' = UpdateLicense(l.id, UpdateData(data))
  /\ UNCHANGED <<implementation, deviceActivation, licenseValidation, call, licenseRead>>
  /\ UNCHANGED NonLicenseVars

\* LicenseService.revokeLicense(id) without a reason
revokeLicense ==
  /\ \E l \in license :
       license' = UpdateLicense(l.id, [status |-> "REVOKED", revokedAt |-> "now",
                                       notes |-> "License revoked"])
  /\ UNCHANGED <<implementation, deviceActivation, licenseValidation, call, licenseRead>>
  /\ UNCHANGED NonLicenseVars

AdminNext ==
  \/ LicenseNext
  \/ updateLicense
  \/ revokeLicense

\* validation and deactivation requests interleaved with administrative calls
AdminSpec == LicenseInit /\ [][AdminNext]_vars

\* ------------------------------------------------------------------------
\* handleAdjustmentUpdated: refunds. The event id handed to processWebhook is
\* the adjustment id (data.id), so webhookEvent is keyed by adjustment ids here.

AdjustmentIds == 1..NumAdjustments
AdjustmentStatuses == {"pending_approval", "approved"}
AdjustmentActions == {"refund", "credit"}

\* the purchase of transaction 1, its user and its license, as the
\* transaction.completed handler commits them
PurchasedUser == [id |-> 1, email |-> "a@example.com", marketingConsent |-> FALSE]
PurchasedLicense ==
  [id |-> 1, licenseKey |-> LicenseKeyOf(1), userId |-> 1, status |-> "ACTIVE",
   maxActivations |-> DefaultMaxActivations, source |-> "paddle",
   transactionId |-> 1]
Purchased ==
  [id |-> 1, paddleTransactionId |-> 1, paddleCustomerId |-> "ctm_1",
   email |-> "a@example.com", licenseId |-> 1, userId |-> 1, emailSent |-> FALSE]

\* LicenseService.revokeLicense by an admin, before any refund
AdminRevoked ==
  [status |-> "REVOKED", revokedAt |-> 0, notes |-> "Revoked by admin"]

\* before any adjustment event: transaction 1 has no purchase, or has one whose
\* license is active or already revoked
RefundInit ==
  /\ webhookEvent = [a \in AdjustmentIds |-> Null]
  /\ \/ /\ paddlePurchase = {}
        /\ license = {}
        /\ user = [e \in Emails |-> Null]
     \/ /\ paddlePurchase = {Purchased}
        /\ license \in {{PurchasedLicense}, {AdminRevoked @@ PurchasedLicense}}
        /\ user = [e \in Emails |-> PurchasedUser]
  /\ emailQueue = <<>>
  /\ pc = [d \in Deliveries |-> "idle"]
  /\ req = [d \in Deliveries |-> Null]
  /\ customerDetails = [d \in Deliveries |-> NoCustomer]
  /\ tx = [d \in Deliveries |-> NoTx]
  /\ result = [d \in Deliveries |-> Null]
  /\ error = [d \in Deliveries |-> NoError]
  /\ response = [d \in Deliveries |-> NoResponse]
  /\ workInvoked = [d \in Deliveries |-> FALSE]
  /\ task = [s \in Slots |-> [i \in EmailIds |-> NoTask]]
  /\ delivered = [i \in EmailIds |-> 0]
  /\ manualRetries = 0
  /\ retryEmailError = NoError
  /\ RetryIdle
  /\ MigrateIdle
  /\ ConfigIdle
  /\ LicenseIdle

\* a request arrives: POST /paddle/webhook with an adjustment.updated payload.
\* An adjustment belongs to one transaction and has one action; its status
\* differs from one notification to the next.
AdjustmentReceive(d) ==
  /\ pc[d] = "idle"
  /\ \A e \in Deliveries : e < d => pc[e] # "idle"
  /\ \E a \in AdjustmentIds, t \in TxnIds, s \in AdjustmentStatuses,
        act \in AdjustmentActions :
       /\ \A e \in Deliveries : req[e] # Null /\ req[e].id = a =>
             t = req[e].transaction_id /\ act = req[e].action
       /\ req' = [req EXCEPT ![d] = [id |-> a, transaction_id |-> t, status |-> s,
                                     action |-> act,
                                     event_type |-> "adjustment.updated"]]
  /\ pc' = [pc EXCEPT ![d] = "lookup"]
  /\ UNCHANGED <<storeVars, customerDetails, tx, result, error, response,
                 workInvoked>>
  /\ UNCHANGED <<emailVars, auxVars>>

\* entry of the callback: only an approved refund acts
AdjustmentWork(d) ==
  /\ pc[d] = "work"
  /\ workInvoked' = [workInvoked EXCEPT ![d] = TRUE]
  /\ IF req[d].status # "approved" \/ req[d].action # "refund"
       THEN /\ result' = [result EXCEPT ![d] =
                 [success |-> TRUE, message |-> "Adjustment acknowledged (not a refund)"]]
            /\ pc' = [pc EXCEPT ![d] = "complete"]
       ELSE /\ pc' = [pc EXCEPT ![d] = "refund_find"]
            /\ UNCHANGED result
  /\ UNCHANGED <<storeVars, req, customerDetails, tx, error, response>>
  /\ UNCHANGED <<emailVars, auxVars>>

\* the refund without the check of the license status
RefundFindNoRevokedCheck(d) ==
  /\ pc[d] = "refund_find"
  /\ LET purchase == FindPurchase(req[d].transaction_id) IN
       IF purchase = Null
         THEN /\ result' = [result EXCEPT ![d] =
                   [success |-> TRUE, message |-> "No purchase found for refund"]]
              /\ pc' = [pc EXCEPT ![d] = "complete"]
              /\ UNCHANGED tx
         ELSE /\ tx' = [tx EXCEPT ![d] = [NoTx EXCEPT !.open = TRUE, !.purchase = purchase]]
              /\ pc' = [pc EXCEPT ![d] = "refund_update"]
              /\ UNCHANGED result
  /\ UNCHANGED <<storeVars, req, customerDetails, error, response, workInvoked>>
  /\ UNCHANGED <<emailVars, auxVars>>

\* start of the $transaction callback: tx.paddlePurchase.findUnique with its
\* license, and the two no-op branches
RefundFind(d) ==
  /\ pc[d] = "refund_find"
  /\ LET purchase == FindPurchase(req[d].transaction_id) IN
       IF purchase = Null
         THEN /\ result' = [result EXCEPT ![d] =
                   [success |-> TRUE, message |-> "No purchase found for refund"]]
              /\ pc' = [pc EXCEPT ![d] = "complete"]
              /\ UNCHANGED tx
         ELSE IF LicenseById(purchase.licenseId).status = "REVOKED"
           THEN /\ result' = [result EXCEPT ![d] =
                     [success |-> TRUE, message |-> "License already revoked"]]
                /\ pc' = [pc EXCEPT ![d] = "complete"]
                /\ UNCHANGED tx
           ELSE /\ tx' = [tx EXCEPT ![d] = [NoTx EXCEPT !.open = TRUE, !.purchase = purchase]]
                /\ pc' = [pc EXCEPT ![d] = "refund_update"]
                /\ UNCHANGED result
  /\ UNCHANGED <<storeVars, req, customerDetails, error, response, workInvoked>>
  /\ UNCHANGED <<emailVars, auxVars>>

\* notes: `Revoked due to refund - Adjustment: ${adjustmentId}, Transaction: ${transactionId}`
RefundNotes(adjustmentId, transactionId) ==
  "Revoked due to refund - Adjustment: " \o ToString(adjustmentId)
     \o ", Transaction: " \o ToString(transactionId)

\* tx.license.update and the commit. revokedAt: new Date() is the time of this
\* handler's update, written as the handler's index.
RefundUpdate(d) ==
  /\ pc[d] = "refund_update"
  /\ license' = UpdateLicense(tx[d].purchase.licenseId,
        [status |-> "REVOKED", revokedAt |-> d,
         notes |-> RefundNotes(req[d].id, req[d].transaction_id)])
  /\ result' = [result EXCEPT ![d] =
        [success |-> TRUE, message |-> "License revoked",
         licenseId |-> tx[d].purchase.licenseId]]
  /\ tx' = [tx EXCEPT ![d] = NoTx]
  /\ pc' = [pc EXCEPT ![d] = "complete"]
  /\ UNCHANGED <<webhookEvent, user, paddlePurchase, emailQueue, req,
                 customerDetails, error, response, workInvoked>>
  /\ UNCHANGED <<emailVars, auxVars>>

\* a statement of the refund transaction throws: rollback
RefundTxFail(d) ==
  /\ pc[d] \in {"refund_find", "refund_update"}
  /\ tx' = [tx EXCEPT ![d] = NoTx]
  /\ error' = [error EXCEPT ![d] = PlainError("Database error")]
  /\ pc' = [pc EXCEPT ![d] = "fail"]
  /\ UNCHANGED <<storeVars, req, customerDetails, result, response, workInvoked>>
  /\ UNCHANGED <<emailVars, auxVars>>

RefundNext ==
  \/ \E d \in Deliveries : AdjustmentReceive(d)
  \/ \E d \in Deliveries : Lookup(d)
  \/ \E d \in Deliveries : Upsert(d)
  \/ \E d \in Deliveries : AdjustmentWork(d)
  \/ \E d \in Deliveries : RefundFind(d)
  \/ \E d \in Deliveries : RefundUpdate(d)
  \/ \E d \in Deliveries : RefundTxFail(d)
  \/ \E d \in Deliveries : Complete(d)
  \/ \E d \in Deliveries : Fail(d)

RefundSpec == RefundInit /\ [][RefundNext]_vars

\* purchases and refunds on one webhook route. webhook_events is keyed by
\* (source, eventId): transaction ids and adjustment ids are different
\* strings, written here as the numbers up to NumTxns and those above.
AdjustmentEventId(a) == NumTxns + a
EventIds == 1..(NumTxns + NumAdjustments)

OrderInit ==
  /\ webhookEvent = [k \in EventIds |-> Null]
  /\ user = [e \in Emails |-> Null]
  /\ license = {}
  /\ paddlePurchase = {}
  /\ emailQueue = <<>>
  /\ pc = [d \in Deliveries |-> "idle"]
  /\ req = [d \in Deliveries |-> Null]
  /\ customerDetails = [d \in Deliveries |-> NoCustomer]
  /\ tx = [d \in Deliveries |-> NoTx]
  /\ result = [d \in Deliveries |-> Null]
  /\ error = [d \in Deliveries |-> NoError]
  /\ response = [d \in Deliveries |-> NoResponse]
  /\ workInvoked = [d \in Deliveries |-> FALSE]
  /\ task = [s \in Slots |-> [i \in EmailIds |-> NoTask]]
  /\ delivered = [i \in EmailIds |-> 0]
  /\ manualRetries = 0
  /\ retryEmailError = NoError
  /\ RetryIdle
  /\ MigrateIdle
  /\ ConfigIdle
  /\ LicenseIdle

\* a request arrives with an adjustment.updated payload for a transaction
RefundReceive(d) ==
  /\ pc[d] = "idle"
  /\ \A e \in Deliveries : e < d => pc[e] # "idle"
  /\ \E a \in AdjustmentIds, t \in TxnIds, s \in AdjustmentStatuses,
        act \in AdjustmentActions :
       /\ \A e \in Deliveries : req[e] # Null /\ req[e].id = AdjustmentEventId(a) =>
             t = req[e].transaction_id /\ act = req[e].action
       /\ req' = [req EXCEPT ![d] = [id |-> AdjustmentEventId(a), transaction_id |-> t,
                                     status |-> s, action |-> act,
                                     event_type |-> "adjustment.updated"]]
  /\ pc' = [pc EXCEPT ![d] = "lookup"]
  /\ UNCHANGED <<storeVars, customerDetails, tx, result, error, response,
                 workInvoked>>
  /\ UNCHANGED <<emailVars, auxVars>>

\* the route's switch on event_type
EventType(d) == Field(req[d], "event_type")

OrderNext ==
  \/ \E d \in Deliveries : Receive(d)
  \/ \E d \in Deliveries : RefundReceive(d)
  \/ \E d \in Deliveries : Lookup(d)
  \/ \E d \in Deliveries : Upsert(d)
  \/ \E d \in Deliveries : EventType(d) = "transaction.completed" /\ Work(d)
  \/ \E d \in Deliveries : FetchCustomer(d)
  \/ \E d \in Deliveries : TxDoubleCheck(d)
  \/ \E d \in Deliveries : TxUser(d)
  \/ \E d \in Deliveries : TxLicense(d)
  \/ \E d \in Deliveries : TxPurchase(d)
  \/ \E d \in Deliveries : TxCommit(d)
  \/ \E d \in Deliveries : TxFail(d)
  \/ \E d \in Deliveries : Enqueue(d)
  \/ \E d \in Deliveries : EventType(d) = "adjustment.updated" /\ AdjustmentWork(d)
  \/ \E d \in Deliveries : RefundFind(d)
  \/ \E d \in Deliveries : RefundUpdate(d)
  \/ \E d \in Deliveries : RefundTxFail(d)
  \/ \E d \in Deliveries : Complete(d)
  \/ \E d \in Deliveries : Fail(d)

OrderSpec == OrderInit /\ [][OrderNext]_vars

\* ------------------------------------------------------------------------
\* determineLicenseConfig

\* item.price.billing_cycle: null, missing, or an interval with a frequency
\* (0 for a missing frequency)
BillingCycles ==
  {[interval |-> null, frequency |-> 0],
   [interval |-> Undefined, frequency |-> 0],
   [interval |-> "month", frequency |-> 0],
   [interval |-> "month", frequency |-> 3],
   [interval |-> "year", frequency |-> 1],
   [interval |-> "week", frequency |-> 1]}

\* a line item: whether its lower-cased product name includes 'lifetime', and
\* its billing cycle
Items == [lifetimeName : BOOLEAN, billing_cycle : BillingCycles]
ItemLists == UNION {[1..n -> Items] : n \in 0..MaxItems}

\* expiresAt: undefined, or new Date() moved forward by n months or years
NoExpiry == [unit |-> "none", n |-> 0]
FromNow(n, unit) == [unit |-> unit, n |-> n]

\* one iteration of `for (const item of items)`
LoopBody(config, item) ==
  IF item.lifetimeName \/ item.billing_cycle.interval = null
    THEN [config EXCEPT !.isLifetime = TRUE, !.expiresAt = NoExpiry]
    ELSE IF item.billing_cycle.interval = Undefined
      THEN config
      ELSE LET n == IF item.billing_cycle.frequency = 0
                      THEN 1 ELSE item.billing_cycle.frequency IN
           IF item.billing_cycle.interval = "year"
             THEN [config EXCEPT !.expiresAt = FromNow(n, "year")]
             ELSE IF item.billing_cycle.interval = "month"
               THEN [config EXCEPT !.expiresAt = FromNow(n, "month")]
               ELSE config

RECURSIVE Loop(_, _, _)
Loop(config, list, i) ==
  IF i > Len(list) THEN config ELSE Loop(LoopBody(config, list[i]), list, i + 1)

determineLicenseConfig(list) ==
  Loop([isLifetime |-> FALSE, expiresAt |-> NoExpiry,
        maxActivations |-> DefaultMaxActivations], list, 1)

ConfigInit ==
  /\ BaseInit
  /\ license = {}
  /\ RetryIdle
  /\ LicenseIdle
  /\ MigrateIdle
  /\ items \in ItemLists
  /\ licenseConfig = NoConfig

\* const licenseConfig = determineLicenseConfig(data)
LicenseConfig ==
  /\ licenseConfig = NoConfig
  /\ licenseConfig' = determineLicenseConfig(items)
  /\ UNCHANGED <<items, webhookVars, emailQueue, emailVars, retryVars, licenseVars,
                 migrationVars>>

ConfigNext == LicenseConfig

ConfigSpec == ConfigInit /\ [][ConfigNext]_vars

\* ------------------------------------------------------------------------
\* POST /revenuecat/migrate

AccountIds == {"rc-1", "rc-2"}

\* expires_at of an entitlement: null, or an ISO timestamp
ExpiryDates == {"now+329d", "now+330d"}
ExpiresAtChoices == {null} \cup ExpiryDates

\* expirationDate.getTime() - now.getTime(), in days
DaysFromNow(expiresAt) ==
  CASE expiresAt = "now+329d" -> 329
    [] expiresAt = "now+330d" -> 330

\* data.active_entitlements?.items || []
EntitlementLists ==
  UNION {[1..n -> [expires_at : ExpiresAtChoices]] : n \in 0..MaxEntitlements}

EligibleMonths == 11
DaysPerMonth == 30

\* the annual test with > in place of >=
EntitlementTypeStrict(entitlement) ==
  IF entitlement.expires_at = null \/ entitlement.expires_at = Undefined
    THEN "lifetime"
    ELSE IF DaysFromNow(entitlement.expires_at) > EligibleMonths * DaysPerMonth
      THEN "annual"
      ELSE ""

\* one iteration of the eligibility loop for an entitlement: the label it
\* gives, "" when it does not qualify
EntitlementType(entitlement) ==
  IF entitlement.expires_at = null \/ entitlement.expires_at = Undefined
    THEN "lifetime"
    ELSE IF DaysFromNow(entitlement.expires_at) >= EligibleMonths * DaysPerMonth
      THEN "annual"
      ELSE ""

\* the loop with its break: isEligible, licenseExpiresAt, subscriptionType
RECURSIVE Eligibility(_, _)
Eligibility(entitlements, i) ==
  IF i > Len(entitlements)
    THEN [isEligible |-> FALSE, licenseExpiresAt |-> Undefined, subscriptionType |-> ""]
    ELSE LET type == EntitlementType(entitlements[i]) IN
         IF type = "lifetime"
           THEN [isEligible |-> TRUE, licenseExpiresAt |-> Undefined,
                 subscriptionType |-> "lifetime"]
           ELSE IF type = "annual"
             THEN [isEligible |-> TRUE, licenseExpiresAt |-> entitlements[i].expires_at,
                   subscriptionType |-> "annual"]
             ELSE Eligibility(entitlements, i + 1)

MigrateInit ==
  /\ BaseInit
  /\ license = {}
  /\ RetryIdle
  /\ LicenseIdle
  /\ MigrateIdle
  /\ ConfigIdle

NonMigrationVars == <<configVars, webhookEvent, paddlePurchase, emailQueue, handlerVars,
                      emailVars, retryVars, licenseVars>>

\* after `await response.json()` a handler runs the eligibility loop up to its
\* next await (or its reply) without yielding to another handler
Yielded == \A o \in Callers : migrate[o].pc # "eligibility"

\* reply.code(code).send(body): the request is over
MigrateReply(c, code, body) ==
  migrate' = [migrate EXCEPT ![c] =
     [pc |-> "done", userId |-> migrate[c].userId, email |-> migrate[c].email,
      fetched |-> migrate[c].fetched \/ migrate[c].pc = "fetch",
      emailAttempted |-> migrate[c].emailAttempted,
      code |-> code, reply |-> body]]

\* catch (error): 500 with the error's message
MigrateCatch(c, message) ==
  MigrateReply(c, 500, [success |-> FALSE, error |-> message])

\* prisma.revenueCatMigration.findUnique({ where: { revenueCatUserId } })
FindMigration(userId) ==
  IF \E m \in revenueCatMigration : m.revenueCatUserId = userId
    THEN CHOOSE m \in revenueCatMigration : m.revenueCatUserId = userId
    ELSE Null

\* a request arrives with body { email, userId }
MigrateStart(c) ==
  /\ migrate[c].pc = "idle"
  /\ Yielded
  /\ \A o \in Callers : o < c => migrate[o].pc # "idle"
  /\ \E userId \in AccountIds, email \in Emails :
       migrate' = [migrate EXCEPT ![c] =
          [pc |-> "check", userId |-> userId, email |-> email,
           fetched |-> FALSE, emailAttempted |-> FALSE]]
  /\ UNCHANGED <<user, license, revenueCatMigration, NonMigrationVars>>

\* the request without the lookup of an existing migration
MigrateCheckNoExisting(c) ==
  /\ migrate[c].pc = "check"
  /\ Yielded
  /\ migrate' = [migrate EXCEPT ![c].pc = "fetch"]
  /\ UNCHANGED <<user, license, revenueCatMigration, NonMigrationVars>>

\* "Check if already migrated"
MigrateCheck(c) ==
  /\ migrate[c].pc = "check"
  /\ Yielded
  /\ LET existingMigration == FindMigration(migrate[c].userId) IN
       IF existingMigration # Null
         THEN MigrateReply(c, 200,
                [success |-> TRUE, alreadyMigrated |-> TRUE,
                 licenseKey |-> LicenseById(existingMigration.licenseId).licenseKey,
                 email |-> existingMigration.email,
                 userId |-> migrate[c].userId,
                 expiresAt |-> LicenseById(existingMigration.licenseId).expiresAt,
                 emailSent |-> existingMigration.emailSent])
         ELSE migrate' = [migrate EXCEPT ![c].pc = "fetch"]
  /\ UNCHANGED <<user, license, revenueCatMigration, NonMigrationVars>>

\* GET /v2/projects/{projectId}/customers/{userId}: a non-ok status, a thrown
\* network error, or the customer with its active entitlements
MigrateFetch(c) ==
  /\ migrate[c].pc = "fetch"
  /\ Yielded
  /\ \/ MigrateReply(c, 500, [success |-> FALSE, error |-> "RevenueCat API error"])
     \/ MigrateCatch(c, "fetch failed")
     \/ \E entitlements \in EntitlementLists :
          migrate' = [migrate EXCEPT ![c] =
             [pc |-> "eligibility", entitlements |-> entitlements, fetched |-> TRUE]
               @@ migrate[c]]
  /\ UNCHANGED <<user, license, revenueCatMigration, NonMigrationVars>>

\* the eligibility loop and the 400 reply when nothing qualifies
MigrateEligibility(c) ==
  /\ migrate[c].pc = "eligibility"
  /\ LET e == Eligibility(migrate[c].entitlements, 1) IN
       IF ~e.isEligible
         THEN MigrateReply(c, 400,
                [success |-> FALSE,
                 error |-> "No eligible purchase found. Only lifetime and annual subscriptions can be migrated."])
         ELSE migrate' = [migrate EXCEPT ![c] =
                [pc |-> "user", userId |-> migrate[c].userId, email |-> migrate[c].email,
                 fetched |-> TRUE, emailAttempted |-> FALSE,
                 subscriptionType |-> e.subscriptionType,
                 licenseExpiresAt |-> e.licenseExpiresAt]]
  /\ UNCHANGED <<user, license, revenueCatMigration, NonMigrationVars>>

\* prisma.user.findUnique({ where: { email } })
MigrateUser(c) ==
  /\ migrate[c].pc = "user"
  /\ Yielded
  /\ IF user[migrate[c].email] = Null
       THEN migrate' = [migrate EXCEPT ![c].pc = "user_create"]
       ELSE migrate' = [migrate EXCEPT ![c] =
              [pc |-> "license", user |-> user[migrate[c].email].id] @@ migrate[c]]
  /\ UNCHANGED <<user, license, revenueCatMigration, NonMigrationVars>>

\* prisma.user.create: email is unique, a row inserted meanwhile rejects it
MigrateUserCreate(c) ==
  /\ migrate[c].pc = "user_create"
  /\ Yielded
  /\ IF user[migrate[c].email] # Null
       THEN /\ MigrateCatch(c, "Unique constraint failed")
            /\ UNCHANGED user
       ELSE /\ user' = [user EXCEPT ![migrate[c].email] =
                   [id |-> c, email |-> migrate[c].email, marketingConsent |-> FALSE]]
            /\ migrate' = [migrate EXCEPT ![c] =
                   [pc |-> "license", user |-> c] @@ migrate[c]]
  /\ UNCHANGED <<license, revenueCatMigration, NonMigrationVars>>

\* LicenseService.createLicense with maxActivations 5 and the migration
\* metadata; expiresAt: data.expiresAt ? new Date(data.expiresAt) : null
MigrateLicense(c) ==
  /\ migrate[c].pc = "license"
  /\ Yielded
  /\ LET row == [id |-> c, licenseKey |-> LicenseKeyOf(c), userId |-> migrate[c].user,
                 status |-> "ACTIVE",
                 expiresAt |-> IF migrate[c].licenseExpiresAt = Undefined
                                 THEN null ELSE migrate[c].licenseExpiresAt,
                 maxActivations |-> DefaultMaxActivations,
                 source |-> "revenuecat_migration",
                 subscriptionType |-> migrate[c].subscriptionType,
                 revenueCatUserId |-> migrate[c].userId] IN
       /\ license' = license \cup {row}
       /\ migrate' = [migrate EXCEPT ![c] = [pc |-> "email", license |-> row] @@ migrate[c]]
  /\ UNCHANGED <<user, revenueCatMigration, NonMigrationVars>>

\* emailService.sendMigrationLicenseEmail: emailResult.success or not
MigrateEmail(c) ==
  /\ migrate[c].pc = "email"
  /\ Yielded
  /\ \E success \in BOOLEAN :
       migrate' = [migrate EXCEPT ![c] =
          [pc |-> "record", emailAttempted |-> TRUE, emailSent |-> success] @@ migrate[c]]
  /\ UNCHANGED <<user, license, revenueCatMigration, NonMigrationVars>>

\* prisma.revenueCatMigration.create (revenueCatUserId is unique) and the
\* reply of a completed migration
MigrateRecord(c) ==
  /\ migrate[c].pc = "record"
  /\ Yielded
  /\ IF FindMigration(migrate[c].userId) # Null
       THEN /\ MigrateCatch(c, "Unique constraint failed")
            /\ UNCHANGED revenueCatMigration
       ELSE /\ revenueCatMigration' = revenueCatMigration \cup
                   {[revenueCatUserId |-> migrate[c].userId, email |-> migrate[c].email,
                     licenseId |-> migrate[c].license.id, userId |-> migrate[c].user,
                     emailSent |-> migrate[c].emailSent]}
            /\ MigrateReply(c, 200,
                   [success |-> TRUE, alreadyMigrated |-> FALSE,
                    subscriptionType |-> migrate[c].subscriptionType,
                    licenseKey |-> migrate[c].license.licenseKey,
                    email |-> migrate[c].email,
                    userId |-> migrate[c].userId,
                    expiresAt |-> migrate[c].license.expiresAt,
                    emailSent |-> migrate[c].emailSent])
  /\ UNCHANGED <<user, license, NonMigrationVars>>

\* a database call of the request rejects: the catch block answers 500
MigrateThrow(c) ==
  /\ migrate[c].pc \in {"check", "user", "user_create", "license", "record"}
  /\ Yielded
  /\ MigrateCatch(c, "Database error")
  /\ UNCHANGED <<user, license, revenueCatMigration, NonMigrationVars>>

MigrateNext ==
  \/ \E c \in Callers : MigrateStart(c)
  \/ \E c \in Callers : MigrateCheck(c)
  \/ \E c \in Callers : MigrateFetch(c)
  \/ \E c \in Callers : MigrateEligibility(c)
  \/ \E c \in Callers : MigrateUser(c)
  \/ \E c \in Callers : MigrateUserCreate(c)
  \/ \E c \in Callers : MigrateLicense(c)
  \/ \E c \in Callers : MigrateEmail(c)
  \/ \E c \in Callers : MigrateRecord(c)
  \/ \E c \in Callers : MigrateThrow(c)

MigrateSpec == MigrateInit /\ [][MigrateNext]_vars

\* ------------------------------------------------------------------------
\* Properties of the idempotent webhook pipeline

PurchasesOf(t) == {p \in paddlePurchase : p.paddleTransactionId = t}
LicensesOf(t) == {l \in license : l.source = "paddle" /\ l.transactionId = t}
Succeeded(d) == pc[d] = "done" /\ response[d].code = 200 /\ response[d].success
IsNew(d) == Succeeded(d) /\ response[d].isNewEvent
IsDuplicate(d) == Succeeded(d) /\ ~response[d].isNewEvent
RowStatus(t) == IF webhookEvent[t] = Null THEN "ABSENT" ELSE webhookEvent[t].status
\* the step is taken by handler d, leaving position p
StepFrom(d, p) == pc[d] = p /\ pc'[d] # p /\ pc'[d] # "crashed"

\* C1: a delivery that finds its event COMPLETED (the same payload delivered
\* again after a completed processing) does not invoke the purchase work,
\* answers isNewEvent = false, and the store holds exactly one Purchase and
\* exactly one License for that transaction id.
C1_SequentialDuplicate ==
  [][\A d \in Deliveries :
       (StepFrom(d, "lookup") /\ RowStatus(req[d].id) = "COMPLETED")
         => /\ pc'[d] = "done"
            /\ response'[d].code = 200
            /\ response'[d].isNewEvent = FALSE
            /\ ~workInvoked'[d]
            /\ Cardinality(PurchasesOf(req[d].id)') = 1
            /\ Cardinality(LicensesOf(req[d].id)') = 1]_vars

C1_Witness ==
  \E d1, d2 \in Deliveries :
     /\ d1 # d2 /\ req[d1].id = req[d2].id
     /\ IsNew(d1) /\ IsDuplicate(d2) /\ ~workInvoked[d2]
     /\ Cardinality(PurchasesOf(req[d1].id)) = 1

\* C2: the response to a delivery that found its event COMPLETED carries the
\* licenseKey and email of the response of the first successful processing.
C2_ReplayReturnsStoredOutcome ==
  \A d1, d2 \in Deliveries :
     (req[d1].id = req[d2].id /\ IsNew(d1) /\ IsDuplicate(d2))
       => /\ Field(response[d2], "licenseKey") = response[d1].licenseKey
          /\ Field(response[d2], "email") = response[d1].email

\* C3: under any interleaving of deliveries for one transaction id there is
\* at most one Purchase and at most one License for it; a delivery that ran
\* the work but is not the creator of the purchase either returned the existing
\* purchase marked alreadyProcessed or failed with none of its rows committed.
C3_AtMostOnePurchase ==
  /\ \A t \in TxnIds : Cardinality(PurchasesOf(t)) <= 1 /\ Cardinality(LicensesOf(t)) <= 1
  /\ \A d \in Deliveries :
       (pc[d] = "done" /\ workInvoked[d] /\ ~(\E p \in paddlePurchase : p.licenseId = d))
         => \/ /\ Succeeded(d)
               /\ response[d].alreadyProcessed
               /\ FindPurchase(req[d].id) # Null
               /\ response[d].licenseKey = LicenseById(FindPurchase(req[d].id).licenseId).licenseKey
            \/ /\ ~response[d].success
               /\ ~(\E l \in license : l.id = d)
               /\ ~(\E e \in Emails : user[e] # Null /\ user[e].id = d)

C3_Witness ==
  \E d1, d2 \in Deliveries :
     /\ d1 # d2 /\ req[d1].id = req[d2].id
     /\ IsNew(d1) /\ ~response[d1].alreadyProcessed
     /\ pc[d2] = "done" /\ workInvoked[d2] /\ ~response[d2].success
     /\ response[d2].error = "Unique constraint failed"

\* C4: for each event key at most one delivery returns isNewEvent = true.
C4_AtMostOneNewEvent ==
  \A t \in TxnIds : Cardinality({d \in Deliveries : req[d].id = t /\ IsNew(d)}) <= 1

\* C5: a delivery that finds its event row PROCESSING fails with a
\* non-retryable 409, never invokes the work, and changes neither the row
\* nor any Purchase or License.
C5_ProcessingConflict ==
  [][\A d \in Deliveries :
       (StepFrom(d, "lookup") /\ RowStatus(req[d].id) = "PROCESSING")
         => /\ pc'[d] = "done"
            /\ response'[d].code = 409
            /\ response'[d].success = FALSE
            /\ response'[d].retryable = FALSE
            /\ ~workInvoked'[d]
            /\ webhookEvent' = webhookEvent
            /\ paddlePurchase' = paddlePurchase
            /\ license' = license]_vars

C5_Witness ==
  \E d1, d2 \in Deliveries :
     /\ d1 # d2 /\ req[d1].id = req[d2].id
     /\ pc[d2] = "done" /\ response[d2].code = 409 /\ ~workInvoked[d2]
     /\ pc[d1] \in InFlight /\ RowStatus(req[d1].id) = "PROCESSING"

\* C6: crash tolerance. A delivery is turned away as "already being processed"
\* only while another handler for the same key is really in flight, so that
\* after a crash a later delivery is accepted for processing.
C6_CrashedEventAccepted ==
  [][\A d \in Deliveries :
       (StepFrom(d, "lookup") /\ pc'[d] = "done" /\ response'[d].code = 409)
         => \E o \in Deliveries \ {d} : req[o].id = req[d].id /\ pc[o] \in InFlight]_vars

\* C7: the transaction is all-or-nothing. No statement of an open or failed
\* transaction is visible in the committed tables, and a License of the Paddle
\* flow exists exactly when the Purchase row linking it to its transaction id
\* exists.
C7_State ==
  /\ \A l \in license : l.source = "paddle" =>
        \E p \in paddlePurchase : p.licenseId = l.id /\ p.paddleTransactionId = l.transactionId
  /\ \A p \in paddlePurchase :
        /\ \E l \in license : l.id = p.licenseId /\ l.transactionId = p.paddleTransactionId
        /\ user[p.email] # Null /\ user[p.email].id = p.userId
  /\ \A d \in Deliveries :
        (tx[d].open \/ pc[d] = "fail" \/ (pc[d] = "done" /\ workInvoked[d] /\ ~response[d].success))
          => /\ ~(\E l \in license : l.id = d)
             /\ ~(\E p \in paddlePurchase : p.id = d)
             /\ ~(\E e \in Emails : user[e] # Null /\ user[e].id = d)

C7_Step ==
  \A d \in Deliveries :
     (pc[d] \in {"tx_check", "tx_user", "tx_license", "tx_purchase", "tx_commit"}
        /\ pc'[d] # pc[d]
        /\ pc'[d] \in {"tx_user", "tx_license", "tx_purchase", "tx_commit", "fail", "crashed"})
       => user' = user /\ license' = license /\ paddlePurchase' = paddlePurchase

C7_TransactionAtomic == []C7_State /\ [][C7_Step]_vars

C7_Witness ==
  \E d1, d2 \in Deliveries :
     /\ d1 # d2
     /\ pc[d1] = "done" /\ workInvoked[d1] /\ ~response[d1].success
     /\ response[d1].error = "Database error"
     /\ IsNew(d2) /\ ~response[d2].alreadyProcessed
     /\ Cardinality(license) = 1 /\ Cardinality(paddlePurchase) = 1

\* ------------------------------------------------------------------------
\* Properties of the email delivery queue

\* C8: under fairly scheduled sweeps every enqueued item eventually reaches
\* SENT or FAILED, whatever the transport does and whenever the process is
\* restarted.
C8_EventuallySentOrFailed ==
  \A i \in 1..NumEmails :
     (i \in QueueIds) ~> (i \in QueueIds /\ emailQueue[i].status \in {"SENT", "FAILED"})

\* C9: with overlapping sweeps only (no manual retry), the transport accepts
\* each item at most once.
C9_DeliveredAtMostOnce ==
  \A i \in EmailIds : manualRetries = 0 => delivered[i] <= 1

\* C10: for an item with maxAttempts = 5 that was never sent, the failure
\* handler of attempt k = 1..5 sets nextRetryAt to 1, 5, 15, 60, 240 minutes
\* from now respectively, and the 5th failure makes the item FAILED.
C10_BackoffSchedule ==
  [][\A s \in Slots, i \in EmailIds :
       (/\ i \in QueueIds
        /\ task[s][i].pc = "failure_update" /\ task'[s][i].pc = "none"
        /\ emailQueue[i].status = "SENDING" /\ emailQueue'[i].status # "SENDING"
        /\ emailQueue[i].maxAttempts = 5
        /\ task[s][i].attempts \in 1..5
        /\ delivered[i] = 0 /\ manualRetries = 0)
         => /\ emailQueue'[i].nextRetryAt = backoffMinutes[task[s][i].attempts]
            /\ (task[s][i].attempts = 5 => emailQueue'[i].status = "FAILED")
            /\ (task[s][i].attempts < 5 => emailQueue'[i].status = "RETRYING")]_vars

\* ------------------------------------------------------------------------
\* Properties of the retry helper

EventsOf(type) == SelectSeq(events, LAMBDA e : e.type = type)
FnFails(n) == fn[n] # "ok"
\* fn fails on its first k invocations with errors shouldRetry accepts and
\* succeeds on invocation k + 1, with k < maxAttempts
FailsThenSucceeds(k) ==
  /\ k < options.maxAttempts
  /\ \A n \in 1..k : FnFails(n) /\ shouldRetry(FnError(n, fn[n]))
  /\ fn[k + 1] = "ok"

\* C11: when fn fails k < maxAttempts times with accepted errors and then
\* succeeds, retry returns fn's value, has invoked fn exactly k + 1 times and
\* onRetry exactly k times, with attempt numbers 1..k in order and the error of
\* that attempt, each call directly after the failed invocation and directly
\* before the wait that follows it.
C11_RetryUntilSuccess ==
  \A k \in 0..(MaxRetryAttempts - 1) :
    (retryPc = "done" /\ FailsThenSucceeds(k)) =>
      /\ outcome = [kind |-> "returned", value |-> "value"]
      /\ Len(EventsOf("fn")) = k + 1
      /\ Len(EventsOf("sleep")) = k
      /\ options.onRetry =>
           /\ Len(EventsOf("onRetry")) = k
           /\ \A n \in 1..k :
                /\ EventsOf("onRetry")[n].attempt = n
                /\ EventsOf("onRetry")[n].error = FnError(n, fn[n])
           /\ \A j \in DOMAIN events :
                events[j].type = "onRetry" =>
                  /\ j > 1 /\ events[j - 1] = [type |-> "fn", attempt |-> events[j].attempt]
                  /\ j < Len(events) /\ events[j + 1].type = "sleep"

\* fails twice, then succeeds, maxAttempts = 3, with an onRetry hook
C11_Witness ==
  /\ retryPc = "done"
  /\ options.maxAttempts = 3
  /\ options.onRetry
  /\ FailsThenSucceeds(2)
  /\ outcome.kind = "returned"
  /\ Len(EventsOf("onRetry")) = 2

\* the failure of invocation n is final: it is the last allowed attempt or
\* shouldRetry rejects its error
FinalFailure(n) ==
  /\ FnFails(n)
  /\ n = options.maxAttempts \/ ~shouldRetry(FnError(n, fn[n]))

C12_State ==
  /\ Len(EventsOf("fn")) <= options.maxAttempts
  /\ \A j \in DOMAIN events :
       (events[j].type = "fn" /\ FinalFailure(events[j].attempt)) =>
         /\ j = Len(events)
         /\ retryPc = "done" =>
              outcome = [kind |-> "thrown",
                         error |-> FnError(events[j].attempt, fn[events[j].attempt])]

\* C12: retry invokes fn at most maxAttempts times and terminates; a failure on
\* attempt maxAttempts, or one shouldRetry rejects, is re-thrown as it is, with
\* no onRetry call, no wait and no further invocation after it.
C12_BoundedAndRethrows ==
  /\ []C12_State
  /\ <>(retryPc = "done")

\* every one of three attempts fails with an accepted error: the third is re-thrown
C12_Witness ==
  /\ retryPc = "done"
  /\ options.maxAttempts = 3
  /\ options.onRetry
  /\ \A n \in 1..3 : FnFails(n) /\ shouldRetry(FnError(n, fn[n]))
  /\ outcome = [kind |-> "thrown", error |-> FnError(3, fn[3])]
  /\ Len(EventsOf("fn")) = 3

\* ------------------------------------------------------------------------
\* Properties of license validation and deactivation

\* this step is caller c's method returning
Returns(c, op) == InCall(c) /\ call[c].op = op /\ call'[c].pc = "done"
\* the activation count in the row the call read
ReadCount(c) ==
  IF implementation = "device" THEN Cardinality(licenseRead[c].deviceActivations)
  ELSE licenseRead[c].currentActivations
\* the activation count the database holds for license id
StoredCount(id) ==
  IF implementation = "device" THEN Cardinality(ActivationsOf(id))
  ELSE (CHOOSE l \in license : l.id = id).currentActivations
\* the same count after the step
StoredCountAfter(id) ==
  IF implementation = "device"
    THEN Cardinality({a \in deviceActivation' : a.licenseId = id})
    ELSE (CHOOSE l \in license' : l.id = id).currentActivations
ValidMessages == {"License is valid", "License is valid (no device tracking)"}

C14_ExpirySideEffect ==
  [][/\ \A c \in Callers :
          (/\ Returns(c, "validate")
           /\ licenseRead[c] # Null
           /\ licenseRead[c].status \notin {"REVOKED", "SUSPENDED"}
           /\ licenseRead[c].expiresAt = "past") =>
            /\ call'[c].message = "License has expired" /\ ~call'[c].isValid
            /\ \A l \in license' : l.id = licenseRead[c].id => l.status = "EXPIRED"
            /\ deviceActivation' = deviceActivation
            /\ \A l \in license, m \in license' :
                 l.id = m.id => m.currentActivations = l.currentActivations
     /\ \A l \in license, m \in license' :
          (l.id = m.id /\ l.status = "EXPIRED") => m.status = "EXPIRED"]_vars

\* an expired license has been validated and reads EXPIRED
C14_Witness ==
  \E c \in Callers :
    /\ call[c] # NoCall /\ call[c].pc = "done" /\ call[c].op = "validate"
    /\ call[c].message = "License has expired"
    /\ \E l \in license : l.status = "EXPIRED" /\ l.expiresAt = "past"

\* C15: a license with maxActivations = 1 and one activation is answered
\* invalid 'Maximum activations reached' whatever the device fingerprint of
\* the request (the activated device, another device, none).
C15_ActivationCeiling ==
  [][\A c \in Callers :
       (/\ Returns(c, "validate")
        /\ StatusRule(licenseRead[c]) = "none"
        /\ licenseRead[c].maxActivations = 1
        /\ ReadCount(c) = 1) =>
         call'[c].message = "Maximum activations reached" /\ ~call'[c].isValid]_vars

\* C16: in the device implementation a license never holds more
\* DeviceActivation rows than its maxActivations.
C16_ActivationsWithinMax ==
  implementation = "device" =>
    \A l \in license : Cardinality(ActivationsOf(l.id)) <= l.maxActivations

\* C17: every validateLicense / deactivateLicense invocation that ends, by
\* returning or throwing and also for a key that does not exist, appends
\* exactly one audit row with its outcome and message ('Deactivation: ' in
\* front for deactivations); audit rows already written are never changed.
C17_OneAuditRowPerCall ==
  [][/\ Len(licenseValidation') >= Len(licenseValidation)
     /\ SubSeq(licenseValidation', 1, Len(licenseValidation)) = licenseValidation
     /\ \A c \in Callers :
          (InCall(c) /\ call'[c].pc \in {"done", "thrown"}) =>
            /\ Len(licenseValidation') = Len(licenseValidation) + 1
            /\ licenseValidation'[Len(licenseValidation')].isValid = call'[c].isValid
            /\ licenseValidation'[Len(licenseValidation')].validationMessage =
                 (IF call[c].op = "deactivate" THEN "Deactivation: " \o call'[c].message
                  ELSE call'[c].message)]_vars

\* the call read no license, or one with nothing to release for its device
NothingToDeactivate(c) ==
  \/ licenseRead[c] = Null
  \/ implementation = "device"
       /\ FindActivation(licenseRead[c], call[c].deviceFingerprint) = Null
  \/ implementation = "counter" /\ licenseRead[c].currentActivations <= 0

C18_State ==
  implementation = "counter" => \A l \in license : l.currentActivations >= 0

C18_Step ==
  \A c \in Callers :
    (call[c].op = "deactivate" /\ call[c].pc = "decide" /\ call'[c].pc # "decide") =>
      /\ call'[c].pc = "done"
      /\ IF NothingToDeactivate(c)
           THEN /\ ~call'[c].isValid
                /\ license' = license
                /\ deviceActivation' = deviceActivation
           ELSE /\ call'[c].isValid
                /\ StoredCountAfter(licenseRead[c].id) = StoredCount(licenseRead[c].id) - 1
      /\ (licenseRead[c] # Null /\ ~call[c].overlapped) =>
           call'[c].currentActivations = StoredCountAfter(licenseRead[c].id)

\* C18: deactivateLicense fails without changing license or activation state
\* when there is no license or nothing to deactivate, otherwise releases
\* exactly one activation; the activation count is never negative; and a call
\* no other call overlaps returns the count stored after it.
C18_DeactivateContract ==
  /\ []C18_State
  /\ [][C18_Step]_vars

\* ------------------------------------------------------------------------
\* Properties of the refund flow

ApprovedRefund(d) ==
  req[d] # Null /\ req[d].status = "approved" /\ req[d].action = "refund"
\* the license of the purchase of transaction t
RefundedLicense(t) == LicenseById(FindPurchase(t).licenseId)
\* the event of delivery d was processed to completion with d's payload
ProcessedBefore(d) ==
  /\ RowStatus(req[d].id) = "COMPLETED"
  /\ webhookEvent[req[d].id].payload = req[d]

\* C19: an approved-refund adjustment.updated event that is delivered again
\* after it was processed performs no License update (status, revokedAt and
\* notes stay as they are) and is acknowledged with 200; and no refund updates
\* a license it finds REVOKED, so that the license is revoked once.
C19_RefundIdempotent ==
  [][\A d \in Deliveries :
       /\ (StepFrom(d, "lookup") /\ ApprovedRefund(d) /\ ProcessedBefore(d))
            => /\ license' = license
               /\ pc'[d] = "done"
               /\ response'[d].code = 200
               /\ ~workInvoked'[d]
       /\ (StepFrom(d, "refund_find") /\ pc'[d] # "fail"
              /\ FindPurchase(req[d].transaction_id) # Null
              /\ RefundedLicense(req[d].transaction_id).status = "REVOKED")
            => /\ license' = license
               /\ pc'[d] = "complete"
               /\ result'[d].success]_vars

C19_Witness ==
  \E d1, d2 \in Deliveries :
     /\ d1 # d2 /\ req[d1] = req[d2] /\ ApprovedRefund(d1)
     /\ pc[d1] = "done" /\ response[d1].code = 200 /\ response[d1].isNewEvent
     /\ response[d1].message = "License revoked"
     /\ pc[d2] = "done" /\ response[d2].code = 200 /\ ~response[d2].isNewEvent
     /\ ~workInvoked[d2]
     /\ RefundedLicense(req[d1].transaction_id).status = "REVOKED"
     /\ RefundedLicense(req[d1].transaction_id).revokedAt = d1

\* C20: once an approved refund delivered for a transaction with a purchase
\* has been handled (answered with 200), the license of the purchase is
\* REVOKED with revokedAt set, whatever was processed before it.
C20_ApprovedRefundRevokes ==
  \A d \in Deliveries :
     (/\ pc[d] = "done" /\ response[d].code = 200
      /\ ApprovedRefund(d)
      /\ FindPurchase(req[d].transaction_id) # Null)
       => /\ RefundedLicense(req[d].transaction_id).status = "REVOKED"
          /\ "revokedAt" \in DOMAIN RefundedLicense(req[d].transaction_id)

\* ------------------------------------------------------------------------
\* Properties of the migration flow

\* lifetime, or expiring at least 11 months of 30 days from now
Qualifies(entitlement) ==
  \/ entitlement.expires_at = null
  \/ DaysFromNow(entitlement.expires_at) >= 330
Qualifying(entitlements) ==
  {i \in 1..Len(entitlements) : Qualifies(entitlements[i])}
First(S) == CHOOSE i \in S : \A j \in S : i <= j
MigrationLicenses(userId) == {l \in license : l.revenueCatUserId = userId}
MigrateDone(c, code) == migrate[c].pc = "done" /\ migrate[c].code = code
MigrationTablesUnchanged ==
  UNCHANGED <<user, license, revenueCatMigration>>

\* C21: the first entitlement without expiry or expiring at least 330 days
\* from now decides: 'lifetime' with no license expiry, or 'annual' with the
\* license expiring at that entitlement's expiry; when none qualifies the
\* call is answered 400 'No eligible purchase found' and has created no
\* User, License or Migration row.
C21_Decision ==
  \A c \in Callers :
    (migrate[c].pc = "eligibility" /\ migrate'[c].pc # "eligibility") =>
      LET es == migrate[c].entitlements IN
        IF Qualifying(es) = {}
          THEN /\ migrate'[c].pc = "done" /\ migrate'[c].code = 400
               /\ migrate'[c].reply.success = FALSE
               /\ MigrationTablesUnchanged
          ELSE LET first == es[First(Qualifying(es))] IN
               /\ migrate'[c].pc = "user"
               /\ first.expires_at = null =>
                     /\ migrate'[c].subscriptionType = "lifetime"
                     /\ migrate'[c].licenseExpiresAt = Undefined
               /\ first.expires_at # null =>
                     /\ migrate'[c].subscriptionType = "annual"
                     /\ migrate'[c].licenseExpiresAt = first.expires_at
C21_Created ==
  \A c \in Callers :
    (migrate[c].pc = "license" /\ migrate'[c].pc = "email") =>
      \E l \in license' \ license :
         /\ l.subscriptionType = migrate[c].subscriptionType
         /\ l.expiresAt = IF migrate[c].subscriptionType = "lifetime"
                             THEN null ELSE migrate[c].licenseExpiresAt
C21_Rejected ==
  \A c \in Callers :
    MigrateDone(c, 400) =>
      /\ \A l \in license : l.id # c
      /\ \A e \in Emails : user[e] = Null \/ user[e].id # c
      /\ \A m \in revenueCatMigration : m.licenseId # c
C21_MigrationEligibility ==
  []C21_Rejected /\ [][C21_Decision /\ C21_Created]_vars

C21_Witness ==
  \E c1, c2 \in Callers :
     /\ MigrateDone(c1, 400) /\ migrate[c1].fetched
     /\ MigrateDone(c2, 200) /\ migrate[c2].reply.subscriptionType = "annual"
     /\ migrate[c2].reply.expiresAt = "now+330d"

\* C22: once a migration record exists for an account id, a migrate call for
\* it (whose lookup does not fail) answers alreadyMigrated = true with the
\* license key of the completed migration, calls no provider API, sends no
\* email and creates no User, License or Migration row.
C22_Step ==
  \A c \in Callers :
    (/\ migrate[c].pc = "check" /\ migrate'[c].pc # "check"
     /\ FindMigration(migrate[c].userId) # Null
     /\ ~(migrate'[c].pc = "done" /\ migrate'[c].code = 500)) =>
      /\ migrate'[c].pc = "done" /\ migrate'[c].code = 200
      /\ migrate'[c].reply.alreadyMigrated
      /\ migrate'[c].reply.licenseKey =
            LicenseById(FindMigration(migrate[c].userId).licenseId).licenseKey
      /\ ~migrate'[c].fetched /\ ~migrate'[c].emailAttempted
      /\ MigrationTablesUnchanged
C22_SameKey ==
  \A c1, c2 \in Callers :
    (/\ MigrateDone(c1, 200) /\ MigrateDone(c2, 200)
     /\ migrate[c1].userId = migrate[c2].userId
     /\ ~migrate[c1].reply.alreadyMigrated /\ migrate[c2].reply.alreadyMigrated)
      => migrate[c2].reply.licenseKey = migrate[c1].reply.licenseKey
C22_AlreadyMigratedReadOnly ==
  []C22_SameKey /\ [][C22_Step]_vars

C22_Witness ==
  \E c1, c2 \in Callers :
     /\ MigrateDone(c1, 200) /\ ~migrate[c1].reply.alreadyMigrated
     /\ MigrateDone(c2, 200) /\ migrate[c2].reply.alreadyMigrated
     /\ migrate[c1].userId = migrate[c2].userId
     /\ migrate[c2].reply.licenseKey = migrate[c1].reply.licenseKey
     /\ ~migrate[c2].fetched /\ ~migrate[c2].emailAttempted

\* C23: at most one License exists per external account id, and every License
\* whose creating call is over has a Migration record referring to it.
C23_OneLicensePerAccount ==
  /\ \A userId \in AccountIds : Cardinality(MigrationLicenses(userId)) <= 1
  /\ \A l \in license :
       migrate[l.id].pc = "done" =>
         \E m \in revenueCatMigration : m.licenseId = l.id

\* ------------------------------------------------------------------------
\* Properties of the error paths of the purchase flow

FetchFailed(d) ==
  error[d].name = "WebhookError" /\ error[d].message = "Failed to fetch customer details"

\* C24: a failed customer fetch is retryable exactly when the upstream status
\* is 5xx or 429 (a network error is retryable), and the webhook answers it
\* with HTTP 500 and a retryable flag equal to that classification.
C24_Classified ==
  \A d \in Deliveries :
    FetchFailed(d) =>
      error[d].isRetryable = (error[d].statusCode >= 500 \/ error[d].statusCode = 429)
C24_Answered ==
  \A d \in Deliveries :
    (StepFrom(d, "fail") /\ FetchFailed(d)) =>
      /\ response'[d].code = 500
      /\ response'[d].retryable = error[d].isRetryable
C24_FetchFailureResponse ==
  []C24_Classified /\ [][C24_Answered]_vars

\* C25: when rendering or queueing the license email fails after the purchase
\* transaction has committed, the callback still returns the license key, the
\* delivery is answered with success and that key, its WebhookEvent becomes
\* COMPLETED and the committed User, License and Purchase rows remain.
C25_EnqueueFails ==
  \A d \in Deliveries :
    (/\ StepFrom(d, "enqueue") /\ ~result[d].alreadyProcessed
     /\ emailQueue' = emailQueue) =>
      /\ pc'[d] = "complete"
      /\ error'[d] = NoError
      /\ result'[d].licenseKey = result[d].licenseKey
      /\ UNCHANGED <<user, license, paddlePurchase>>
C25_Completes ==
  \A d \in Deliveries :
    StepFrom(d, "complete") =>
      /\ pc'[d] = "done"
      /\ response'[d].code = 200 /\ response'[d].success
      /\ response'[d].licenseKey = result[d].licenseKey
      /\ webhookEvent'[req[d].id].status = "COMPLETED"
      /\ UNCHANGED <<user, license, paddlePurchase>>
      /\ \E p \in paddlePurchase' :
            /\ p.paddleTransactionId = req[d].id
            /\ LicenseById(p.licenseId).licenseKey = result[d].licenseKey
            /\ user'[p.email] # Null
C25_EnqueueFailureSwallowed ==
  [][C25_EnqueueFails /\ C25_Completes]_vars

C25_Witness ==
  \E d \in Deliveries :
     /\ IsNew(d) /\ ~response[d].alreadyProcessed
     /\ emailQueue = <<>>
     /\ RowStatus(req[d].id) = "COMPLETED"
     /\ \E p \in PurchasesOf(req[d].id) :
           LicenseById(p.licenseId).licenseKey = response[d].licenseKey

\* C26: a request whose signature header is missing or malformed, whose HMAC
\* does not match or whose timestamp is more than 300 seconds from now is
\* answered 401 with retryable = false and changes no WebhookEvent, User,
\* License, Purchase or EmailQueueItem row.
Unauthentic(header) ==
  \/ ~header.present
  \/ ~header.ts \/ ~header.h1
  \/ ~header.hmacOk
  \/ header.skewMs > 300 * 1000 \/ header.skewMs < 0 - 300 * 1000
C26_Step ==
  \A d \in Deliveries :
    (pc[d] = "idle" /\ pc'[d] # "idle" /\ Unauthentic(req'[d].header)) =>
      /\ pc'[d] = "done"
      /\ response'[d].code = 401
      /\ response'[d].retryable = FALSE
      /\ UNCHANGED storeVars
C26_Rejected ==
  \A d \in Deliveries :
    (pc[d] # "idle" /\ Unauthentic(req[d].header)) =>
      /\ pc[d] = "done" /\ response[d].code = 401
      /\ ~workInvoked[d]
C26_UnverifiedRejected ==
  []C26_Rejected /\ [][C26_Step]_vars

C26_Witness ==
  \E d1, d2 \in Deliveries :
     /\ d2 < d1
     /\ pc[d2] = "done" /\ response[d2].code = 200
     /\ req[d2].header.skewMs = 300000
     /\ paddlePurchase # {} /\ Len(emailQueue) = 1
     /\ pc[d1] = "done" /\ response[d1].code = 401
     /\ response[d1].retryable = FALSE
     /\ req[d1].header.hmacOk /\ req[d1].header.skewMs = 300001

\* C27: when the work fails the WebhookEvent is marked FAILED for a
\* non-retryable WebhookError and RETRYING for any other error, lastError is
\* recorded and the same error reaches the route; a delivery that finds its
\* row absent, FAILED or RETRYING sets it to PROCESSING, adds exactly one to
\* attempts and invokes the work.
C27_Failure ==
  \A d \in Deliveries :
    StepFrom(d, "fail") =>
      LET row == webhookEvent'[req[d].id] IN
      /\ row.status = IF error[d].name = "WebhookError" /\ ~error[d].isRetryable
                        THEN "FAILED" ELSE "RETRYING"
      /\ row.lastError = error[d].message
      /\ row.attempts = webhookEvent[req[d].id].attempts
      /\ response'[d] = ErrorResponse(error[d])
C27_Redelivery ==
  \A d \in Deliveries :
    /\ (StepFrom(d, "lookup")
           /\ RowStatus(req[d].id) \in {"ABSENT", "FAILED", "RETRYING"})
         => pc'[d] = "upsert"
    /\ StepFrom(d, "upsert")
         => /\ webhookEvent'[req[d].id].status = "PROCESSING"
            /\ webhookEvent'[req[d].id].attempts =
                  IF RowStatus(req[d].id) = "ABSENT"
                    THEN 1 ELSE webhookEvent[req[d].id].attempts + 1
            /\ pc'[d] = "work"
    /\ StepFrom(d, "work") => workInvoked'[d]
C27_FailureAndRedelivery ==
  [][C27_Failure /\ C27_Redelivery]_vars

C27_Witness ==
  \E d1, d2 \in Deliveries :
     /\ d1 # d2 /\ req[d1].id = req[d2].id
     /\ pc[d1] = "done" /\ response[d1].code = 200 /\ ~response[d1].success
     /\ ~response[d1].retryable
     /\ workInvoked[d2]
     /\ webhookEvent[req[d2].id].attempts = 2
     /\ webhookEvent[req[d2].id].status = "FAILED"
     /\ pc[d2] = "done"

\* C28: within a delivery the customer fetch has completed before the
\* database transaction starts, and the license email is enqueued only after
\* that transaction has committed a Purchase this delivery created; so at
\* most one license email is enqueued per transaction id, and none by a
\* delivery that returns alreadyProcessed or whose transaction rolled back.
LicenseEmails(t) == {i \in DOMAIN emailQueue : emailQueue[i].metadata = t}
C28_Order ==
  \A d \in Deliveries :
    /\ pc[d] \in {"tx_check", "tx_user", "tx_license", "tx_purchase", "tx_commit",
                  "enqueue"}
         => customerDetails[d].email # Undefined
    /\ tx[d].open => pc[d] \in {"tx_user", "tx_license", "tx_purchase", "tx_commit"}
    /\ \A t \in TxnIds : Cardinality(LicenseEmails(t)) <= 1
C28_Enqueued ==
  emailQueue' # emailQueue =>
    \E d \in Deliveries :
       /\ StepFrom(d, "enqueue")
       /\ ~tx[d].open
       /\ ~result[d].alreadyProcessed
       /\ \E p \in paddlePurchase : p.paddleTransactionId = req[d].id /\ p.id = d
       /\ emailQueue' = Append(emailQueue, emailQueue'[Len(emailQueue')])
       /\ emailQueue'[Len(emailQueue')].metadata = req[d].id
C28_FetchCommitEnqueue ==
  []C28_Order /\ [][C28_Enqueued]_vars

C28_Witness ==
  \E d1, d2 \in Deliveries :
     /\ d1 # d2 /\ req[d1].id = req[d2].id
     /\ IsNew(d1) /\ ~response[d1].alreadyProcessed
     /\ IsNew(d2) /\ response[d2].alreadyProcessed
     /\ Cardinality(LicenseEmails(req[d1].id)) = 1

\* ------------------------------------------------------------------------
\* Properties of determineLicenseConfig

IsLifetimeItem(item) == item.lifetimeName \/ item.billing_cycle.interval = null
Recurring(item) == item.billing_cycle.interval \in {"month", "year"}

\* C29: maxActivations is 5; when any item is a lifetime product the license
\* has no expiry, whatever the other items and their order; when no item is
\* and the items are month or year subscriptions, the expiry is now +
\* frequency x interval of an item.
C29_LicenseConfig ==
  licenseConfig # NoConfig =>
    /\ licenseConfig.maxActivations = 5
    /\ (\E i \in DOMAIN items : IsLifetimeItem(items[i]))
          => licenseConfig.expiresAt = NoExpiry
    /\ (items # <<>> /\ \A i \in DOMAIN items :
            ~IsLifetimeItem(items[i]) /\ Recurring(items[i]))
          => \E i \in DOMAIN items :
                licenseConfig.expiresAt =
                  FromNow(IF items[i].billing_cycle.frequency = 0
                            THEN 1 ELSE items[i].billing_cycle.frequency,
                          items[i].billing_cycle.interval)

\* C30: a transaction.completed event whose status is not 'completed' is
\* acknowledged with 200 and one without customer id is rejected with 400;
\* neither fetches the customer nor creates a User, License, Purchase or
\* email, and the WebhookEvent is marked FAILED (non-retryable).
Skipped(d) == req[d] # Null /\ req[d].status # "completed"
NoCustomerId(d) ==
  req[d] # Null /\ req[d].status = "completed" /\ req[d].customer_id = Undefined
C30_NoSideEffect ==
  \A d \in Deliveries :
    (Skipped(d) \/ NoCustomerId(d)) =>
      /\ pc[d] \in {"lookup", "upsert", "work", "fail", "done", "crashed"}
      /\ customerDetails[d] = NoCustomer
      /\ ~tx[d].open
      /\ \A p \in paddlePurchase : p.id # d
      /\ \A l \in license : l.id # d
      /\ \A e \in Emails : user[e] = Null \/ user[e].id # d
      /\ LicenseEmails(req[d].id) = {}
C30_Rejected ==
  \A d \in Deliveries :
    (StepFrom(d, "fail") /\ (Skipped(d) \/ NoCustomerId(d))) =>
      /\ pc'[d] = "done"
      /\ response'[d].code = IF Skipped(d) THEN 200 ELSE 400
      /\ response'[d].success = FALSE
      /\ response'[d].retryable = FALSE
      /\ webhookEvent'[req[d].id].status = "FAILED"
      /\ UNCHANGED <<user, license, paddlePurchase, emailQueue>>
C30_BusinessRuleRejections ==
  []C30_NoSideEffect /\ [][C30_Rejected]_vars

C30_Witness ==
  \E d \in Deliveries :
     /\ Skipped(d) /\ workInvoked[d]
     /\ pc[d] = "done" /\ response[d].code = 200 /\ ~response[d].success
     /\ RowStatus(req[d].id) = "FAILED"
     /\ paddlePurchase = {} /\ license = {} /\ emailQueue = <<>>

\* ------------------------------------------------------------------------
\* Properties of the email sweep, the manual retry and the queue rows

\* the row of item i satisfies the where-clause of processPendingEmails
Due(i) ==
  /\ emailQueue[i].status \in {"PENDING", "RETRYING"}
  /\ emailQueue[i].attempts < emailQueue[i].maxAttempts
  /\ emailQueue[i].nextRetryAt <= 0

\* the items a step of slot s picks up
PickedUp(s) == {i \in EmailIds : task[s][i].pc = "none" /\ task'[s][i].pc = "find"}

\* a sendEmail started by a sweep makes its send attempt for item i
SweepSends(s, i) ==
  /\ task[s][i].retried = Undefined
  /\ task[s][i].pc = "update" /\ task'[s][i].pc = "transport"

\* C31: a sweep sends only items with status PENDING or RETRYING, attempts <
\* maxAttempts and nextRetryAt <= now, at most `limit` per sweep in ascending
\* nextRetryAt order; so a RETRYING item is never sent before its nextRetryAt
\* and items in SENDING, SENT or FAILED are never sent by a sweep.
C31_Selection ==
  \A s \in Slots :
    (UNCHANGED manualRetries /\ PickedUp(s) # {}) =>
       /\ \A i \in PickedUp(s) : i \in QueueIds /\ Due(i)
       /\ Cardinality(PickedUp(s)) <= SweepLimit
       /\ \A i \in PickedUp(s), j \in Eligible \ PickedUp(s) :
             emailQueue[i].nextRetryAt <= emailQueue[j].nextRetryAt
C31_Send ==
  \A s \in Slots, i \in EmailIds : SweepSends(s, i) => Due(i)
C31_SweepSendsOnlyDue == [][C31_Selection /\ C31_Send]_vars

\* the sendEmail of a retryEmail call that found item i FAILED
RetryOfFailed(s, i) == task[s][i].retried = "FAILED"

\* C32: retryEmail on a FAILED item resets it to PENDING with attempts = 0,
\* lastError cleared and nextRetryAt = now and immediately makes exactly one
\* send attempt, after which attempts = 1 and the status is SENT on transport
\* success or RETRYING on failure (maxAttempts > 1); retryEmail on an unknown
\* id raises 'Email not found' and changes nothing.
C32_Reset ==
  \A s \in Slots, i \in EmailIds :
    (task[s][i].pc = "none" /\ task'[s][i].pc # "none" /\ RetryOfFailed(s, i)') =>
       /\ emailQueue'[i].status = "PENDING"
       /\ emailQueue'[i].attempts = 0
       /\ emailQueue'[i].lastError = null
       /\ emailQueue'[i].nextRetryAt = 0
       /\ task'[s][i].pc = "find"
C32_Attempt ==
  \A s \in Slots, i \in EmailIds :
    /\ (/\ RetryOfFailed(s, i)
        /\ task[s][i].pc = "mark_sent" /\ task'[s][i].pc = "none"
        /\ emailQueue'[i].status = "SENT")
         => emailQueue'[i].attempts = 1
    /\ (/\ RetryOfFailed(s, i)
        /\ task[s][i].pc = "failure_update" /\ task'[s][i].pc = "none"
        /\ emailQueue'[i] # emailQueue[i]
        /\ emailQueue[i].maxAttempts > 1)
         => emailQueue'[i].attempts = 1 /\ emailQueue'[i].status = "RETRYING"
C32_NotFound ==
  (manualRetries' # manualRetries) =>
     \/ /\ retryEmailError' = PlainError("Email not found")
        /\ UNCHANGED <<emailQueue, task, delivered>>
     \/ /\ retryEmailError' = NoError
        /\ \E s \in Slots, i \in QueueIds :
             task[s][i].pc = "none" /\ task'[s][i].pc = "find"
C32_ManualRetry == [][C32_Reset /\ C32_Attempt /\ C32_NotFound]_vars

\* ------------------------------------------------------------------------
\* Properties of device activations, the activation counter and the status

\* caller c's method acts on the row it read
Decides(c, op) == call[c].op = op /\ call[c].pc = "decide" /\ call'[c].pc # "decide"

\* C33: per-device implementation: validateLicense from a fingerprint that
\* already has an activation on the license returns valid and leaves the
\* activation rows as they are, also when the license is at maxActivations;
\* deactivateLicense removes exactly the activation row of the given
\* fingerprint and no other device's row.
C33_Revalidate ==
  \A c \in Callers :
    (/\ implementation = "device"
     /\ Decides(c, "validate")
     /\ StatusRule(licenseRead[c]) = "none"
     /\ call[c].deviceFingerprint # Undefined
     /\ FindActivation(licenseRead[c], call[c].deviceFingerprint) \in deviceActivation) =>
       /\ call'[c].pc = "done"
       /\ call'[c].isValid /\ call'[c].message = "License is valid"
       /\ deviceActivation' = deviceActivation
       /\ license' = license
C33_Deactivate ==
  \A c \in Callers :
    (implementation = "device" /\ Decides(c, "deactivate")) =>
       LET removed == deviceActivation \ deviceActivation' IN
         /\ deviceActivation' \subseteq deviceActivation
         /\ \A a \in removed : /\ a.licenseId = licenseRead[c].id
                                /\ a.deviceFingerprint = call[c].deviceFingerprint
         /\ (call'[c].pc = "done" /\ call'[c].isValid) <=> Cardinality(removed) = 1
         /\ Cardinality(removed) <= 1
ReportedValid(c) ==
  /\ call[c].pc = "done" /\ call[c].op = "validate"
  /\ call[c].isValid /\ call[c].deviceFingerprint # Undefined
\* a deactivateLicense of the same device succeeded after (or while) c ran
DeactivatedSince(c) ==
  \E o \in Callers \ {c} :
     /\ call[o].pc = "done" /\ call[o].op = "deactivate" /\ call[o].isValid
     /\ call[o].deviceFingerprint = call[c].deviceFingerprint
     /\ (o > c \/ call[o].overlapped)
\* the devices reported valid and not deactivated since
InUse ==
  {call[c].deviceFingerprint : c \in {o \in Callers : ReportedValid(o) /\ ~DeactivatedSince(o)}}

\* C34: counter implementation: the number of distinct device fingerprints
\* that were reported valid and have not since been deactivated never
\* exceeds the license's maxActivations.
C34_DevicesWithinMax ==
  implementation = "counter" =>
    \A l \in license : Cardinality(InUse) <= l.maxActivations

\* C35: validateLicense reports valid only for a license whose stored status
\* is ACTIVE; a license whose status is EXPIRED (as REVOKED or SUSPENDED) is
\* never reported valid, whatever updateLicense and validateLicense calls
\* preceded, also after its expiresAt was extended.
C35_ValidOnlyIfActive ==
  [][\A c \in Callers :
       (Returns(c, "validate") /\ call'[c].isValid) =>
          licenseRead[c].status = "ACTIVE"]_vars

\* C36: once a license is REVOKED no validateLicense or deactivateLicense
\* step changes its status, also when the call read the license before it
\* was revoked and then applies the automatic EXPIRED update.
C36_RevokedStays ==
  [][(call' # call) =>
       \A l \in license, m \in license' :
          (l.id = m.id /\ l.status = "REVOKED") => m.status = "REVOKED"]_vars

\* ------------------------------------------------------------------------
\* Properties across the purchase and the refund of one transaction

\* the event with key k was processed to COMPLETED
Completed(k) == RowStatus(k) = "COMPLETED"
\* the stored event with key k is an approved refund of transaction t
StoredRefundOf(k, t) ==
  /\ Completed(k)
  /\ webhookEvent[k].payload.event_type = "adjustment.updated"
  /\ webhookEvent[k].payload.transaction_id = t
  /\ webhookEvent[k].payload.status = "approved"
  /\ webhookEvent[k].payload.action = "refund"

\* C37: once the transaction.completed event of a transaction and an approved
\* refund adjustment for it have both been processed to COMPLETED, in either
\* order, the license issued for the transaction is REVOKED.
C37_RefundedLicenseRevoked ==
  \A t \in TxnIds, a \in AdjustmentIds :
    (Completed(t) /\ StoredRefundOf(AdjustmentEventId(a), t)) =>
       \A l \in LicensesOf(t) : l.status = "REVOKED"

\* ------------------------------------------------------------------------
\* Absorbing states of queue items and webhook events

\* a sendEmail of slot s calls the transport for item i in this step
HandsToTransport(s, i) ==
  task[s][i].pc = "transport" /\ task'[s][i].pc \in {"mark_sent", "failure_find"}

\* C38: once an item is SENT, no sweep, no failure handler of an overlapping
\* send and no manual retryEmail changes its status or hands the email to
\* the transport again.
C38_SentAbsorbing ==
  [][\A i \in QueueIds :
       emailQueue[i].status = "SENT" =>
          /\ emailQueue'[i].status = "SENT"
          /\ \A s \in Slots : ~HandsToTransport(s, i)]_vars

\* C39: attempts <= maxAttempts for every item in every reachable state, and
\* between manual resets the transport is invoked at most maxAttempts times
\* for the item (every invocation follows an increment of attempts), under
\* any interleaving of overlapping sweeps.
C39_AttemptsWithinMax ==
  \A i \in QueueIds : emailQueue[i].attempts <= emailQueue[i].maxAttempts

\* C40: a COMPLETED webhook event row never changes its status again
\* (neither the failure path of a concurrent delivery of the same key nor
\* retryWebhook moves it), and every COMPLETED row has lastError = null.
C40_Stays ==
  \A t \in TxnIds :
    RowStatus(t) = "COMPLETED" => webhookEvent'[t].status = "COMPLETED"
C40_NoError ==
  \A t \in TxnIds : RowStatus(t) = "COMPLETED" => webhookEvent[t].lastError = null
C40_CompletedAbsorbing == []C40_NoError /\ [][C40_Stays]_vars

====
